---------------------------- MODULE Spec2Model ----------------------------
(***************************************************************************)
(* Model of the frame-capture-to-video pipeline of animation-save2:        *)
(*   - MapViewExample2 (src/components/MapExample2.tsx): the coordinator   *)
(*     that starts the animation, captures frames into the scratch         *)
(*     directory and triggers the encoding;                                *)
(*   - DirectoryVideoEncoder (src/components/MapExample2.js, from line     *)
(*     382): loads and sorts the frame files, posts them in batches to the *)
(*     WebView and writes the returned video;                              *)
(*   - the WebView script (same file, lines 656-996): PNGToMP4Encoder and  *)
(*     the window message listener.                                        *)
(*                                                                         *)
(* A file name is a sequence of characters in which a run of non-digit     *)
(* characters is written as one element: "frame_12.png" is                 *)
(* <<"frame_", "1", "2", ".png">>; the extension is an element of its own. *)
(* Every await of the source is a step    *)
(* boundary; the code between two awaits is one atomic step.               *)
(***************************************************************************)
EXTENDS Integers, Sequences, FiniteSets, TLC

\* ------------------------------------------------------------------ bounds
MaxFiles == 3       \* files in the directory drawn by InitLoad
MaxJobs == 2        \* presses of the start button
MaxCaptures == 1    \* onCapture calls that pass the isAnimating check
MaxFaults == 1      \* file system calls that throw and messages the channel loses
MaxReloads == 1     \* presses of "Reload Files"
StartClock == 9     \* Date.now() of the first state
MaxClock == 11      \* last value Date.now() takes

NULL == <<>>
\* the value parseInt gives for a string with no digit (no parsed number is negative)
NaN == 0 - 1

\* ----------------------------------------------------------- pure helpers
Digits == <<"0", "1", "2", "3", "4", "5", "6", "7", "8", "9">>

IsDigit(c) == \E i \in 1..10 : Digits[i] = c

DigitValue(c) == (CHOOSE i \in 1..10 : Digits[i] = c) - 1

\* a.replace(/\D/g, ''): the digits of the name, in order
StripNonDigits(name) == SelectSeq(name, IsDigit)

RECURSIVE ParseDigits(_)
ParseDigits(ds) ==
  IF ds = <<>> THEN 0
  ELSE 10 * ParseDigits(SubSeq(ds, 1, Len(ds) - 1)) + DigitValue(ds[Len(ds)])

\* parseInt of a string of digits: NaN for the empty string
ParseInt(ds) == IF ds = <<>> THEN NaN ELSE ParseDigits(ds)

RECURSIVE Dec(_)
\* the decimal representation of a natural number (template literal ${timestamp})
Dec(n) == IF n < 10 THEN <<Digits[n + 1]>> ELSE Dec(n \div 10) \o <<Digits[(n % 10) + 1]>>

EndsWith(name, pattern) ==
  /\ Len(name) >= Len(pattern)
  /\ SubSeq(name, Len(name) - Len(pattern) + 1, Len(name)) = pattern

FILES_PATTERN == <<".png">>
FRAMES_DIRECTORY == <<"cache/map_frames_reanimated/">>

FrameName(timestamp) == <<"frame_">> \o Dec(timestamp) \o <<".png">>

\* the file name a uri of the directory names
NameOfUri(uri) == SubSeq(uri, Len(FRAMES_DIRECTORY) + 1, Len(uri))

\* all the orders in which a finite set can be listed
Perms(S) ==
  {p \in [1..Cardinality(S) -> S] : \A i, j \in 1..Cardinality(S) : p[i] = p[j] => i = j}

\* the comparator of the sort: numA - numB, NaN when a name has no digit
CompareReversed(a, b) ==
  LET numA == ParseInt(StripNonDigits(a))
      numB == ParseInt(StripNonDigits(b))
  IN  IF numA = NaN \/ numB = NaN THEN NaN ELSE numB - numA

CompareNames(a, b) ==
  LET numA == ParseInt(StripNonDigits(a))
      numB == ParseInt(StripNonDigits(b))
  IN  IF numA = NaN \/ numB = NaN THEN NaN ELSE numA - numB

\* Array.prototype.sort reads a NaN of the comparator as +0
SortOrder(a, b) == IF CompareNames(a, b) = NaN THEN 0 ELSE CompareNames(a, b)

\* the comparator is consistent on the names when "compares equal" is transitive
ConsistentComparator(names) ==
  \A i, j, k \in 1..Len(names) :
    (SortOrder(names[i], names[j]) = 0 /\ SortOrder(names[j], names[k]) = 0)
      => SortOrder(names[i], names[k]) = 0

RECURSIVE InsertStable(_, _)
\* insert x behind every element that does not compare greater than x
InsertStable(sorted, x) ==
  IF sorted = <<>> THEN <<x>>
  ELSE IF SortOrder(Head(sorted), x) <= 0
       THEN <<Head(sorted)>> \o InsertStable(Tail(sorted), x)
       ELSE <<x>> \o sorted

RECURSIVE StableSort(_)
StableSort(names) ==
  IF names = <<>> THEN <<>>
  ELSE InsertStable(StableSort(SubSeq(names, 1, Len(names) - 1)), names[Len(names)])

Range(s) == {s[i] : i \in 1..Len(s)}

\* the results files.filter(...).sort(...) can have: the stable sort when the
\* comparator is consistent, an implementation-defined order when it is not
SortOutcomes(names) ==
  IF ConsistentComparator(names) THEN {StableSort(names)}
  ELSE {p \in Perms(Range(names)) : Len(names) = Cardinality(Range(names))}

FilterByPattern(listing) == SelectSeq(listing, LAMBDA n : EndsWith(n, FILES_PATTERN))

PrefixAll(names) == [i \in 1..Len(names) |-> FRAMES_DIRECTORY \o names[i]]

\* ------------------------------------------------------------------ state
VARIABLES
  dirExists,      \* the frames directory exists
  dirFiles,       \* its files: [name, job], job the job whose capture wrote it
  now,            \* Date.now()
  fsFails,        \* file system calls that have thrown
  status,         \* DirectoryVideoEncoder state: status
  progress,       \*   progress, in thousandths
  videoUri,       \*   videoUri
  fileUris,       \*   fileUris
  isLoading,      \*   isLoading
  debugInfo,      \*   debugInfo: the 'Error parsing message' lines added to it
  reloadPc,       \* the loadFilesFromDirectory call of the "Reload Files" button
  reloads,        \* presses of "Reload Files"
  isAnimating,    \* MapViewExample2 state: isAnimating
  isProcessing,   \*   isProcessing
  frames,         \*   frames
  animationTimeoutRef, \* the job whose backup timeout the ref holds, or 0
  timeouts,       \* the backup timeouts that are scheduled, by job
  anim,           \* the job whose withTiming animation runs, or 0
  curJob,         \* the job whose startAnimation set isAnimating last
  startPc,        \* where each startAnimation call stands
  fin,            \* where each finishAnimation call stands
  cap,            \* the onCapture calls
  call,           \* the startEncoding calls, one for each finishAnimation
  toWV,           \* messages posted to the WebView, not yet delivered
  toRN,           \* messages posted by the WebView, not yet handled
  lost,           \* messages the channel has lost
  encoder,        \* WebView: the global encoder (the call that created it), or NoCall
  encoders,       \* WebView: the PNGToMP4Encoder objects
  handlers,       \* WebView: the message handlers suspended in an await
  writes,         \* the 'video' handlers suspended in writeAsStringAsync
  outFiles,       \* the output files: [name, call, complete]
  videoLog,       \* what each finished 'video' handler left: [call, name, ok, status, uri]
  mounted,        \* MapViewExample2 is mounted
  mapExample,     \* MapViewExample of MapExample.js, the interval-driven animation
  sample,         \* a call of calculateCoordinates and what it returned
  createVideo,    \* a call of WebViewVideoEncoder.createVideo
  webViewEncoder  \* a rendered WebViewEncoder with its WebView

fsVars == <<dirExists, dirFiles, now, fsFails>>
encVars == <<status, progress, videoUri, fileUris, isLoading, debugInfo>>
reloadVars == <<reloadPc, reloads>>
mapVars == <<isAnimating, isProcessing, frames, animationTimeoutRef, timeouts, anim, curJob>>
procVars == <<startPc, fin, cap>>
chanVars == <<toWV, toRN, lost>>
wvVars == <<encoder, encoders, handlers>>
outVars == <<writes, outFiles, videoLog>>
\* the components other than MapViewExample2 and its DirectoryVideoEncoder
restVars == <<mapExample, sample, createVideo, webViewEncoder>>
vars == <<fsVars, encVars, reloadVars, mapVars, procVars, call, chanVars, wvVars, outVars,
          mounted, restVars>>

Jobs == 1..MaxJobs
Sources == {"callback", "timeout"}
\* a finishAnimation call: the job, and what called it
FinIds == Jobs \X Sources
NoCall == <<0, "none">>
\* the tempEncoder of an 'encode' message
TempEncoder == <<0, "encode">>
EncoderIds == FinIds \cup {TempEncoder}
Captures == 1..MaxCaptures
\* the onCapture calls of the specification that looks at onCapture alone
CaptureIds == 1..(MaxCaptures + 1)

DirNames == {f.name : f \in dirFiles}

\* --------------------------------------------- DirectoryVideoEncoder: load
\* loadFilesFromDirectory up to its first await: the two setters
LoadBegin ==
  /\ isLoading' = TRUE
  /\ status' = "Loading files..."

\* loadFilesFromDirectory from getInfoAsync to its end: the status and the file
\* list it can leave (found: the list it set, empty when it set none), for every
\* order in which readDirectoryAsync lists the directory and every result of the sort
LoadOutcomes ==
  IF ~dirExists
  THEN {[status |-> "Error: Directory not found", fileUris |-> fileUris, found |-> <<>>]}
  ELSE { IF filteredFiles = <<>>
         THEN [status |-> "No .png files found in directory", fileUris |-> fileUris,
               found |-> <<>>]
         ELSE [status |-> "Found files", fileUris |-> PrefixAll(filteredFiles),
               found |-> PrefixAll(filteredFiles)]
         : filteredFiles \in UNION {SortOutcomes(FilterByPattern(listing)) :
                                      listing \in Perms(DirNames)} }

\* the "Reload Files" button: onPress={loadFilesFromDirectory} disabled={isLoading}
ReloadPress ==
  /\ mounted
  /\ ~isLoading
  /\ reloadPc = "idle"
  /\ reloads < MaxReloads
  /\ reloads' = reloads + 1
  /\ reloadPc' = "loading"
  /\ LoadBegin
  /\ UNCHANGED <<fsVars, progress, videoUri, fileUris, debugInfo>>
  /\ UNCHANGED <<mapVars, procVars, call, chanVars, wvVars, outVars, mounted, restVars>>

ReloadDone ==
  /\ reloadPc = "loading"
  /\ reloadPc' = "idle"
  /\ isLoading' = FALSE
  /\ \E load \in LoadOutcomes :
       /\ status' = load.status
       /\ fileUris' = load.fileUris
  /\ UNCHANGED <<fsVars, progress, videoUri, reloads, debugInfo>>
  /\ UNCHANGED <<mapVars, procVars, call, chanVars, wvVars, outVars, mounted, restVars>>

\* ------------------------------------------- loadFilesFromDirectory alone
NamePool ==
  { <<"f", "1", ".png">>, <<"f", "2", ".png">>, <<"f", "1", "0", ".png">>,
    <<"f", "0", "2", ".png">>, <<"f", "1", "_", "2", ".png">>, <<"a", ".png">>,
    <<"f", "1", ".jpg">>, <<"f", "3", ".jpg">> }

StaleUris == PrefixAll(<<FrameName(7)>>)

InitEncoder ==
  /\ status = "Ready"
  /\ progress = 0
  /\ videoUri = NULL
  /\ isLoading = FALSE
  /\ debugInfo = 0
  /\ reloadPc = "idle"
  /\ reloads = 0

\* the other components are not rendered
InitRest ==
  /\ mapExample = NULL
  /\ sample = NULL
  /\ createVideo = NULL
  /\ webViewEncoder = NULL

InitMap ==
  /\ mounted = TRUE
  /\ isAnimating = FALSE
  /\ isProcessing = FALSE
  /\ frames = <<>>
  /\ animationTimeoutRef = 0
  /\ timeouts = {}
  /\ anim = 0
  /\ curJob = 0
  /\ startPc = [j \in Jobs |-> "idle"]
  /\ fin = [id \in FinIds |-> "idle"]
  /\ cap = [c \in CaptureIds |-> [pc |-> "idle", job |-> 0, presses |-> 0, name |-> <<>>]]

InitPipeline ==
  /\ call = [id \in FinIds |->
              [pc |-> "idle", closure |-> <<>>, loaded |-> <<>>, batchStart |-> 0,
               posted |-> <<>>, shareUri |-> NULL]]
  /\ toWV = <<>>
  /\ toRN = <<>>
  /\ lost = <<>>
  /\ encoder = NoCall
  /\ encoders = [id \in EncoderIds |->
                  [isInitialized |-> FALSE, isRecording |-> FALSE, stopPending |-> FALSE,
                   stopOwner |-> NoCall, starts |-> 0, added |-> <<>>, drawn |-> <<>>]]
  /\ handlers = {}
  /\ writes = {}
  /\ outFiles = {}
  /\ videoLog = {}

\* a directory of up to MaxFiles files of the pool, and the list of an earlier load
InitLoad ==
  /\ dirExists = TRUE
  /\ \E names \in SUBSET NamePool :
       /\ Cardinality(names) <= MaxFiles
       /\ dirFiles = {[name |-> n, job |-> 0] : n \in names}
  /\ now = StartClock
  /\ fsFails = 0
  /\ fileUris \in {<<>>, StaleUris}
  /\ InitEncoder
  /\ InitMap
  /\ InitPipeline
  /\ InitRest

NextLoad == ReloadPress \/ ReloadDone

SpecLoad == InitLoad /\ [][NextLoad]_vars

\* ------------------------------------------------------------- claim C4
MatchingNames == {n \in DirNames : EndsWith(n, FILES_PATTERN)}

HasDigit(name) == StripNonDigits(name) # <<>>

NumericToken(uri) == ParseDigits(StripNonDigits(NameOfUri(uri)))

ExactlyTheMatchingFiles ==
  /\ Len(fileUris) = Cardinality(MatchingNames)
  /\ Range(fileUris) = {FRAMES_DIRECTORY \o n : n \in MatchingNames}

TokensNonDecreasing ==
  \A i, j \in 1..Len(fileUris) :
    (i < j /\ HasDigit(NameOfUri(fileUris[i])) /\ HasDigit(NameOfUri(fileUris[j])))
      => NumericToken(fileUris[i]) <= NumericToken(fileUris[j])

\* C4 as stated: after a load of any directory, fileUris is exactly the names that
\* end with filePattern, each once and prefixed with directoryPath, in an order in
\* which the numeric tokens of the names are non-decreasing.
C4_AsStated ==
  status \in {"Found files", "No .png files found in directory"}
    => ExactlyTheMatchingFiles /\ TokensNonDecreasing

\* C4 amended: after a load of a directory with at least one name that ends with
\* filePattern, fileUris is exactly those names, each once and prefixed with
\* directoryPath; when each of them contains a digit, the numbers formed by all the
\* digits of each name are non-decreasing along the list.
C4_LoadSortsByDigits ==
  status = "Found files"
    => /\ ExactlyTheMatchingFiles
       /\ (\A n \in MatchingNames : HasDigit(n)) => TokensNonDecreasing

\* a load that put frame 2 before frame 10 and left a .jpg file out
C4_Witness ==
  /\ status = "Found files"
  /\ \A n \in MatchingNames : HasDigit(n)
  /\ DirNames # MatchingNames
  /\ \E i, j \in 1..Len(fileUris) :
       /\ i < j
       /\ NameOfUri(fileUris[i]) = <<"f", "2", ".png">>
       /\ NameOfUri(fileUris[j]) = <<"f", "1", "0", ".png">>

\* ------------------------------------------ MapViewExample2: startAnimation
\* the start button is disabled={isAnimating || isProcessing}; the call runs to
\* its first await: the two clear calls, then cleanupTempDirectory's getInfoAsync
StartPress(j) ==
  /\ mounted
  /\ ~(isAnimating \/ isProcessing)
  /\ startPc[j] = "idle"
  /\ \A k \in Jobs : k < j => startPc[k] # "idle"
  /\ timeouts' = timeouts \ {animationTimeoutRef}
  /\ startPc' = [startPc EXCEPT ![j] = "cleanupInfo"]
  /\ UNCHANGED <<isAnimating, isProcessing, frames, animationTimeoutRef, anim, curJob>>
  /\ UNCHANGED <<fsVars, encVars, reloadVars, mounted, restVars, fin, cap, call, chanVars,
                 wvVars, outVars>>

\* cleanupTempDirectory: getInfoAsync answers
StartCleanupInfo(j) ==
  /\ startPc[j] = "cleanupInfo"
  /\ startPc' = [startPc EXCEPT ![j] = IF dirExists THEN "cleanupDelete" ELSE "ensureInfo"]
  /\ UNCHANGED <<fsVars, encVars, reloadVars, mounted, restVars, mapVars, fin, cap, call,
                 chanVars, wvVars,
                 outVars>>

\* cleanupTempDirectory: deleteAsync removes the directory, or throws and is caught
StartCleanupDelete(j) ==
  /\ startPc[j] = "cleanupDelete"
  /\ \/ /\ dirExists' = FALSE
        /\ dirFiles' = {}
        /\ fsFails' = fsFails
     \/ /\ fsFails + Len(lost) < MaxFaults
        /\ fsFails' = fsFails + 1
        /\ UNCHANGED <<dirExists, dirFiles>>
  /\ startPc' = [startPc EXCEPT ![j] = "ensureInfo"]
  /\ UNCHANGED <<now, encVars, reloadVars, mounted, restVars, mapVars, fin, cap, call,
                 chanVars, wvVars,
                 outVars>>

\* startAnimation behind its two awaits: the resets, the animation and the backup
\* timeout (assigning angle.value cancels a running animation: its callback gets
\* finished = false and does nothing).  The setters of an unmounted component
\* change nothing
StartBody(j) ==
  /\ frames' = IF mounted THEN <<>> ELSE frames
  /\ isAnimating' = IF mounted THEN TRUE ELSE isAnimating
  /\ anim' = j
  /\ curJob' = j
  /\ animationTimeoutRef' = j
  /\ timeouts' = timeouts \cup {j}
  /\ startPc' = [startPc EXCEPT ![j] = "done"]
  /\ UNCHANGED isProcessing

\* ensureFramesDirectory: getInfoAsync answers
StartEnsureInfo(j) ==
  /\ startPc[j] = "ensureInfo"
  /\ IF dirExists
     THEN StartBody(j)
     ELSE /\ startPc' = [startPc EXCEPT ![j] = "ensureMkdir"]
          /\ UNCHANGED mapVars
  /\ UNCHANGED <<fsVars, encVars, reloadVars, mounted, restVars, fin, cap, call, chanVars,
                 wvVars, outVars>>

\* ensureFramesDirectory: makeDirectoryAsync creates the directory; it throws when
\* another call has created it meanwhile, and startAnimation ends there
StartEnsureMkdir(j) ==
  /\ startPc[j] = "ensureMkdir"
  /\ IF dirExists
     THEN /\ startPc' = [startPc EXCEPT ![j] = "failed"]
          /\ UNCHANGED <<mapVars, dirExists>>
     ELSE /\ dirExists' = TRUE
          /\ StartBody(j)
  /\ UNCHANGED <<dirFiles, now, fsFails, encVars, reloadVars, mounted, restVars, fin, cap,
                 call, chanVars,
                 wvVars, outVars>>

\* ----------------------------------------------- MapViewExample2: onCapture
\* ViewShot calls onCapture with a uri while isAnimating; the call runs to the
\* getInfoAsync of ensureFramesDirectory (kept with the call: the job it belongs to
\* and how many times the start button had been pressed when it began)
CaptureBegin(c) ==
  /\ mounted
  /\ isAnimating
  /\ cap[c].pc = "idle"
  /\ \A k \in CaptureIds : k < c => cap[k].pc # "idle"
  /\ cap' = [cap EXCEPT ![c] = [pc |-> "ensureInfo", job |-> curJob,
                                presses |-> Cardinality({j \in Jobs : startPc[j] # "idle"}),
                                name |-> <<>>]]
  /\ UNCHANGED <<fsVars, encVars, reloadVars, mounted, restVars, mapVars, startPc, fin, call,
                 chanVars,
                 wvVars, outVars>>

CaptureEnsureInfo(c) ==
  /\ cap[c].pc = "ensureInfo"
  /\ cap' = [cap EXCEPT ![c].pc = IF dirExists THEN "write" ELSE "ensureMkdir"]
  /\ UNCHANGED <<fsVars, encVars, reloadVars, mounted, restVars, mapVars, startPc, fin, call,
                 chanVars,
                 wvVars, outVars>>

\* makeDirectoryAsync; when it throws the catch of onCapture ends the call
CaptureEnsureMkdir(c) ==
  /\ cap[c].pc = "ensureMkdir"
  /\ dirExists' = TRUE
  /\ cap' = [cap EXCEPT ![c].pc = IF dirExists THEN "done" ELSE "write"]
  /\ UNCHANGED <<dirFiles, now, fsFails, encVars, reloadVars, mounted, restVars, mapVars,
                 startPc, fin, call,
                 chanVars, wvVars, outVars>>

\* Date.now(), readAsStringAsync and writeAsStringAsync: the frame file is written
\* under the name of its timestamp, or a call throws (also when the directory is
\* gone) and the catch ends onCapture
CaptureWrite(c) ==
  /\ cap[c].pc = "write"
  /\ \E timestamp \in {now, now + 1} :
       /\ timestamp <= MaxClock
       /\ now' = timestamp
       /\ \/ /\ dirExists
             /\ dirFiles' = {f \in dirFiles : f.name # FrameName(timestamp)}
                              \cup {[name |-> FrameName(timestamp), job |-> cap[c].job]}
             /\ cap' = [cap EXCEPT ![c].pc = "written", ![c].name = FrameName(timestamp)]
             /\ fsFails' = fsFails
          \/ /\ ~dirExists
             /\ cap' = [cap EXCEPT ![c].pc = "done"]
             /\ UNCHANGED <<dirFiles, fsFails>>
          \/ /\ dirExists
             /\ fsFails + Len(lost) < MaxFaults
             /\ fsFails' = fsFails + 1
             /\ cap' = [cap EXCEPT ![c].pc = "done"]
             /\ UNCHANGED dirFiles
  /\ UNCHANGED <<dirExists, encVars, reloadVars, mounted, restVars, mapVars, startPc, fin,
                 call, chanVars,
                 wvVars, outVars>>

\* a check that takes the written file for an existing one
CaptureCheckTrusting(c) ==
  /\ cap[c].pc = "written"
  /\ frames' = Append(frames, FRAMES_DIRECTORY \o cap[c].name)
  /\ cap' = [cap EXCEPT ![c].pc = "done"]
  /\ UNCHANGED <<isAnimating, isProcessing, animationTimeoutRef, timeouts, anim, curJob>>
  /\ UNCHANGED <<fsVars, encVars, reloadVars, mounted, restVars, startPc, fin, call, chanVars,
                 wvVars, outVars>>

\* getInfoAsync(newUri): the frame joins the list when its file exists
CaptureCheck(c) ==
  /\ cap[c].pc = "written"
  /\ frames' = IF dirExists /\ cap[c].name \in DirNames
               THEN Append(frames, FRAMES_DIRECTORY \o cap[c].name)
               ELSE frames
  /\ cap' = [cap EXCEPT ![c].pc = "done"]
  /\ UNCHANGED <<isAnimating, isProcessing, animationTimeoutRef, timeouts, anim, curJob>>
  /\ UNCHANGED <<fsVars, encVars, reloadVars, mounted, restVars, startPc, fin, call, chanVars,
                 wvVars, outVars>>

\* --------------------------------------------- MapViewExample2: finishAnimation
\* finishAnimation up to its await of the 1000 ms delay
FinishSync(id) ==
  /\ fin[id] = "idle"
  /\ anim' = 0
  /\ isAnimating' = IF mounted THEN FALSE ELSE isAnimating
  /\ fin' = [fin EXCEPT ![id] = "delay"]
  /\ UNCHANGED <<isProcessing, frames, animationTimeoutRef, curJob>>

\* the animation reaches 360: the callback of withTiming gets finished = true
AnimationComplete(j) ==
  /\ anim = j
  /\ FinishSync(<<j, "callback">>)
  /\ UNCHANGED timeouts
  /\ UNCHANGED <<fsVars, encVars, reloadVars, mounted, restVars, startPc, cap, call, chanVars,
                 wvVars, outVars>>

\* a backup timeout that would fire without calling finishAnimation
TimeoutFiresIdle(j) ==
  /\ j \in timeouts
  /\ timeouts' = timeouts \ {j}
  /\ UNCHANGED <<isAnimating, isProcessing, frames, animationTimeoutRef, anim, curJob>>
  /\ UNCHANGED <<fsVars, encVars, reloadVars, mounted, restVars, procVars, call, chanVars,
                 wvVars, outVars>>

\* the backup timeout of job j fires
TimeoutFires(j) ==
  /\ j \in timeouts
  /\ timeouts' = timeouts \ {j}
  /\ FinishSync(<<j, "timeout">>)
  /\ UNCHANGED <<fsVars, encVars, reloadVars, mounted, restVars, startPc, cap, call, chanVars,
                 wvVars, outVars>>

\* --------------------------------------------- MapViewExample2: unmount
\* the clean-up of the last effect: clearTimeout of the timeout the ref holds and
\* cancelAnimation; the children unmount with it
Unmount ==
  /\ mounted
  /\ mounted' = FALSE
  /\ timeouts' = timeouts \ {animationTimeoutRef}
  /\ anim' = 0
  /\ UNCHANGED <<isAnimating, isProcessing, frames, animationTimeoutRef, curJob>>
  /\ UNCHANGED <<fsVars, encVars, reloadVars, procVars, call, chanVars, wvVars, outVars,
                 restVars>>

\* ------------------------------------- DirectoryVideoEncoder: startEncoding
BATCH_SIZE == 10

Min(a, b) == IF a < b THEN a ELSE b

\* Math.ceil(fileUris.length / BATCH_SIZE)
TotalBatches(n) == (n + BATCH_SIZE - 1) \div BATCH_SIZE

ToWebView(type, id, batchIndex, totalBatches, images) ==
  [type |-> type, call |-> id, batchIndex |-> batchIndex, totalBatches |-> totalBatches,
   images |-> images]

\* what a startEncoding call has posted so far is kept with the call
Posted(type, batchIndex, indices) ==
  [type |-> type, batchIndex |-> batchIndex, indices |-> indices]

\* startEncoding has returned: finishAnimation runs its finally.  (In the
\* coordinators of MapExample.js and MapExample2.js the then-callback calls
\* shareVideo at this point; the videoUri it reads is kept with the call as shareUri)
EncodingReturns(id) ==
  /\ fin' = [fin EXCEPT ![id] = "done"]
  /\ isProcessing' = FALSE

\* the 1000 ms delay of finishAnimation is over: setIsProcessing(true), and
\* startEncoding is called; it keeps the fileUris of the render it was created in
\* and runs to the first await of loadFilesFromDirectory
EncBegin(id) ==
  /\ fin[id] = "delay"
  /\ IF mounted
     THEN /\ fin' = [fin EXCEPT ![id] = "encoding"]
          /\ isProcessing' = TRUE
          /\ call' = [call EXCEPT ![id].pc = "loading", ![id].closure = fileUris]
          /\ LoadBegin
     ELSE \* directoryVideoEncoderRef.current is null: no call, the finally runs
          /\ fin' = [fin EXCEPT ![id] = "done"]
          /\ UNCHANGED <<isProcessing, call, isLoading, status>>
  /\ UNCHANGED <<isAnimating, frames, animationTimeoutRef, timeouts, anim, curJob>>
  /\ UNCHANGED <<fsVars, progress, videoUri, fileUris, debugInfo, reloadVars, mounted, restVars, startPc,
                 cap, chanVars,
                 wvVars, outVars>>

\* the load ends; then the check of fileUris.length and the initEncoder message
EncLoaded(id) ==
  /\ call[id].pc = "loading"
  /\ isLoading' = FALSE
  /\ \E load \in LoadOutcomes :
       /\ fileUris' = load.fileUris
       /\ IF call[id].closure = <<>>
          THEN /\ status' = "No files loaded"
               /\ call' = [call EXCEPT ![id].pc = "done", ![id].loaded = load.found,
                                       ![id].shareUri = videoUri]
               /\ EncodingReturns(id)
               /\ UNCHANGED <<progress, videoUri, toWV>>
          ELSE /\ status' = "Preparing images..."
               /\ progress' = 0
               /\ videoUri' = NULL
               /\ toWV' = Append(toWV, ToWebView("initEncoder", id, 0, 0, <<>>))
               /\ call' = [call EXCEPT ![id].pc = "sending", ![id].loaded = load.found,
                                       ![id].posted = <<Posted("initEncoder", 0, <<>>)>>]
               /\ UNCHANGED <<fin, isProcessing>>
  /\ UNCHANGED <<isAnimating, frames, animationTimeoutRef, timeouts, anim, curJob>>
  /\ UNCHANGED <<fsVars, debugInfo, reloadVars, mounted, restVars, startPc, cap, toRN, lost, wvVars,
                 outVars>>

\* the images of the batch that starts behind batchStart
BatchImages(uris, batchStart) ==
  [k \in 1..(Min(batchStart + BATCH_SIZE, Len(uris)) - batchStart) |->
     [index |-> batchStart + k - 1, uri |-> uris[batchStart + k]]]

Readable(uri) == dirExists /\ NameOfUri(uri) \in DirNames

\* behind the 250 ms or 100 ms delay: the files of the next batch are read and the
\* batch is posted; a read that throws ends startEncoding in its catch
EncBatch(id) ==
  /\ call[id].pc = "sending"
  /\ call[id].batchStart < Len(call[id].closure)
  /\ LET uris == call[id].closure
         batchStart == call[id].batchStart
         images == BatchImages(uris, batchStart)
     IN  \/ /\ \A k \in 1..Len(images) : Readable(images[k].uri)
            /\ toWV' = Append(toWV, ToWebView("encodeBatch", id, batchStart \div BATCH_SIZE,
                                              TotalBatches(Len(uris)), images))
            /\ call' = [call EXCEPT ![id].batchStart = batchStart + BATCH_SIZE,
                                    ![id].posted =
                                      Append(@, Posted("encodeBatch", batchStart \div BATCH_SIZE,
                                                       [k \in 1..Len(images) |-> images[k].index]))]
            /\ UNCHANGED <<status, fin, isProcessing, fsFails>>
         \/ /\ \/ /\ \E k \in 1..Len(images) : ~Readable(images[k].uri)
                  /\ fsFails' = fsFails
               \/ /\ fsFails + Len(lost) < MaxFaults
                  /\ fsFails' = fsFails + 1
            /\ status' = "Error: reading a frame"
            /\ call' = [call EXCEPT ![id].pc = "done", ![id].shareUri = videoUri]
            /\ EncodingReturns(id)
            /\ UNCHANGED toWV
  /\ UNCHANGED <<isAnimating, frames, animationTimeoutRef, timeouts, anim, curJob>>
  /\ UNCHANGED <<dirExists, dirFiles, now, progress, videoUri, fileUris, isLoading, debugInfo,
                 reloadVars, mounted, restVars, startPc, cap, toRN, lost, wvVars, outVars>>

\* behind the delay of the last batch: finalizeEncoding is posted, startEncoding returns
EncFinalize(id) ==
  /\ call[id].pc = "sending"
  /\ call[id].batchStart >= Len(call[id].closure)
  /\ toWV' = Append(toWV, ToWebView("finalizeEncoding", id, 0, 0, <<>>))
  /\ call' = [call EXCEPT ![id].pc = "done", ![id].shareUri = videoUri,
                          ![id].posted = Append(@, Posted("finalizeEncoding", 0, <<>>))]
  /\ EncodingReturns(id)
  /\ UNCHANGED <<isAnimating, frames, animationTimeoutRef, timeouts, anim, curJob>>
  /\ UNCHANGED <<fsVars, encVars, reloadVars, mounted, restVars, startPc, cap, toRN, lost,
                 wvVars, outVars>>

\* ------------------------------------------------------ the WebView script
ToReactNative(type, id, message, value) ==
  [type |-> type, call |-> id, message |-> message, progress |-> value]

\* the progress the listener posts behind each frame, in thousandths
BatchProgress(batchIndex, n, totalBatches, index) ==
  500 + (500 * (batchIndex * n + index * totalBatches)) \div (totalBatches * totalBatches * n)

WebViewError(id) == ToReactNative("error", id, "Error: WebView error", 0)

\* encoder.addFrame(image.data) up to its await, for the handler h of a batch whose
\* next image is Head(h.images): initialize() of an encoder that is not initialized,
\* a throw when it is not recording, else the load of the image to draw
AddFrameCall(h, encs) ==
  IF ~encs[encoder].isInitialized
  THEN [thrown |-> FALSE, handler |-> [h EXCEPT !.enc = encoder, !.mode = "init"]]
  ELSE IF ~encs[encoder].isRecording
       THEN [thrown |-> TRUE, handler |-> h]
       ELSE [thrown |-> FALSE, handler |-> [h EXCEPT !.enc = encoder, !.mode = "draw"]]

\* the listener's loop from one addFrame call to the next await, or to its end:
\* h is the handler with the images left, old what it was when it was suspended
ContinueBatch(old, h, encs, posts) ==
  IF h.images = <<>>
  THEN /\ handlers' = handlers \ {old}
       /\ toRN' = toRN \o posts
  ELSE LET next == AddFrameCall(h, encs)
       IN  IF next.thrown
           THEN /\ handlers' = handlers \ {old}
                /\ toRN' = toRN \o posts \o <<WebViewError(h.call)>>
           ELSE /\ handlers' = (handlers \ {old}) \cup {next.handler}
                /\ toRN' = toRN \o posts

\* new PNGToMP4Encoder(data.options); starts counts the calls of startRecording,
\* added lists the frames whose addFrame call has returned, drawn the frames drawn
NewEncoder ==
  [isInitialized |-> FALSE, isRecording |-> FALSE, stopPending |-> FALSE,
   stopOwner |-> NoCall, starts |-> 0, added |-> <<>>, drawn |-> <<>>]

\* the window message listener takes the next message and runs to its first await
WebViewDeliver ==
  /\ toWV # <<>>
  /\ Head(toWV).type # "encode"
  /\ toWV' = Tail(toWV)
  /\ LET data == Head(toWV)
     IN  CASE data.type = "initEncoder" ->
                /\ encoder' = data.call
                /\ encoders' = [encoders EXCEPT ![data.call] = NewEncoder]
                /\ UNCHANGED <<handlers, toRN>>
           [] data.type = "encodeBatch" ->
                /\ IF encoder = NoCall
                   THEN /\ toRN' = Append(toRN, WebViewError(data.call))
                        /\ UNCHANGED handlers
                   ELSE LET h == [kind |-> "batch", call |-> data.call,
                                  batchIndex |-> data.batchIndex,
                                  totalBatches |-> data.totalBatches,
                                  n |-> Len(data.images), images |-> data.images,
                                  enc |-> encoder, mode |-> "new"]
                        IN  ContinueBatch(h, h, encoders, <<>>)
                /\ UNCHANGED <<encoder, encoders>>
           [] OTHER ->
                \* finalizeEncoding: encoder.stopRecording() sets onstop and calls
                \* mediaRecorder.stop(); on a recorder that was stopped already
                \* stop() returns or throws, as the WebView's engine has it
                /\ IF encoder = NoCall \/ ~encoders[encoder].isRecording
                   THEN /\ toRN' = Append(toRN, WebViewError(data.call))
                        /\ UNCHANGED <<handlers, encoders>>
                   ELSE /\ encoders' = [encoders EXCEPT ![encoder].stopPending = TRUE,
                                                         ![encoder].stopOwner = data.call]
                        /\ LET h == [kind |-> "finalize", call |-> data.call,
                                     batchIndex |-> 0, totalBatches |-> 0, n |-> 0,
                                     images |-> <<>>, enc |-> encoder, mode |-> "stopping"]
                           IN  \/ /\ handlers' = handlers \cup {h}
                                  /\ UNCHANGED toRN
                               \/ /\ encoders[encoder].stopPending
                                  /\ toRN' = Append(toRN, WebViewError(data.call))
                                  /\ UNCHANGED handlers
                /\ UNCHANGED encoder
  /\ UNCHANGED <<fsVars, encVars, reloadVars, mounted, restVars, mapVars, procVars, call, lost,
                 outVars>>

\* img.onload in initialize() or addFrame() of the handler h; then the progress
\* message and the next turn of the loop.  initialize() starts the recorder and
\* draws nothing; addFrame() draws the image
ImageLoaded(h) ==
  /\ h \in handlers
  /\ h.kind = "batch"
  /\ LET image == Head(h.images)
         encs == IF h.mode = "init"
                 THEN [encoders EXCEPT ![h.enc].isInitialized = TRUE,
                                       ![h.enc].isRecording = TRUE,
                                       ![h.enc].starts = @ + 1,
                                       ![h.enc].added = Append(@, image.index)]
                 ELSE [encoders EXCEPT ![h.enc].added = Append(@, image.index),
                                       ![h.enc].drawn = Append(@, image.index)]
         post == ToReactNative("progress", h.call, "",
                               BatchProgress(h.batchIndex, h.n, h.totalBatches, image.index))
     IN  /\ encoders' = encs
         /\ ContinueBatch(h, [h EXCEPT !.images = Tail(h.images)], encs, <<post>>)
  /\ UNCHANGED <<fsVars, encVars, reloadVars, mounted, restVars, mapVars, procVars, call, toWV,
                 lost, encoder,
                 outVars>>

\* mediaRecorder.onstop of the encoder e: the handler that set onstop last goes on
\* to read the blob
RecorderStopped(e) ==
  /\ encoders[e].stopPending
  /\ encoders' = [encoders EXCEPT ![e].stopPending = FALSE, ![e].isRecording = FALSE]
  /\ handlers' = {IF h.kind = "finalize" /\ h.enc = e /\ h.call = encoders[e].stopOwner
                  THEN [h EXCEPT !.mode = "reading"] ELSE h : h \in handlers}
  /\ UNCHANGED <<fsVars, encVars, reloadVars, mounted, restVars, mapVars, procVars, call,
                 chanVars, encoder,
                 outVars>>

\* reader.onloadend: stopRecording resolves, the listener posts the video and the
\* status
VideoRead(h) ==
  /\ h \in handlers
  /\ h.kind = "finalize"
  /\ h.mode = "reading"
  /\ handlers' = handlers \ {h}
  /\ toRN' = toRN \o <<ToReactNative("video", h.enc, "", 0),
                       ToReactNative("status", h.enc, "Video encoding completed", 0)>>
  /\ UNCHANGED <<fsVars, encVars, reloadVars, mounted, restVars, mapVars, procVars, call, toWV,
                 lost, encoder,
                 encoders, outVars>>

\* ------------------------------------ DirectoryVideoEncoder: handleMessage
OutputName(time) == <<"documents/output_">> \o Dec(time) \o <<".mp4">>

\* JSON.parse of a text, given as its tokens: null, an object with or without a
\* type, or a SyntaxError
JsonParse(text) ==
  IF text = <<"null">> THEN [thrown |-> FALSE, value |-> "null", type |-> ""]
  ELSE IF text = <<"{", "}">> THEN [thrown |-> FALSE, value |-> "object", type |-> ""]
  ELSE IF /\ Len(text) = 5
          /\ text[1] = "{" /\ text[2] = "\"type\"" /\ text[3] = ":" /\ text[5] = "}"
       THEN [thrown |-> FALSE, value |-> "object", type |-> text[4]]
       ELSE [thrown |-> TRUE, value |-> "", type |-> ""]

\* a parse that reports what it cannot read as an error message of the page
ParseMessageAsError(m) ==
  IF m.type # "text" THEN m
  ELSE LET parsed == JsonParse(m.text)
       IN  IF parsed.thrown \/ parsed.value = "null"
           THEN [type |-> "error", message |-> "Error: bad message"]
           ELSE [type |-> parsed.type]

\* const data = JSON.parse(event.nativeEvent.data) and the read of data.type: the
\* messages of the page's script stand for their own JSON text; a throw of the
\* parse, or of the read of null.type, goes to the catch
ParseMessage(m) ==
  IF m.type # "text" THEN m
  ELSE LET parsed == JsonParse(m.text)
       IN  IF parsed.thrown \/ parsed.value = "null"
           THEN [type |-> "thrown"]
           ELSE [type |-> parsed.type]

\* handleMessage takes the next message of the WebView; for 'video' it runs to the
\* await of writeAsStringAsync, with the file name of the current time; the catch
\* and the cases log and debug add a debug message, no case matches another type
HandleMessage ==
  /\ toRN # <<>>
  /\ toRN' = Tail(toRN)
  /\ LET data == ParseMessage(Head(toRN))
     IN  CASE data.type = "status" ->
                /\ status' = data.message
                /\ UNCHANGED <<progress, writes, now>>
           [] data.type = "progress" ->
                /\ progress' = data.progress
                /\ UNCHANGED <<status, writes, now>>
           [] data.type = "error" ->
                /\ status' = data.message
                /\ UNCHANGED <<progress, writes, now>>
           [] data.type = "video" ->
                /\ \E time \in {now, now + 1} :
                     /\ time <= MaxClock
                     /\ now' = time
                     /\ writes' = writes \cup {[call |-> data.call, name |-> OutputName(time)]}
                /\ UNCHANGED <<status, progress>>
           [] OTHER ->
                UNCHANGED <<status, progress, writes, now>>
  /\ debugInfo' = IF ParseMessage(Head(toRN)).type = "thrown" THEN debugInfo + 1 ELSE debugInfo
  /\ UNCHANGED <<dirExists, dirFiles, fsFails, videoUri, fileUris, isLoading, reloadVars,
                 mounted, restVars,
                 mapVars, procVars, call, toWV, lost, wvVars, outFiles, videoLog>>

\* writeAsStringAsync of a 'video' handler ends: the file is there, videoUri and the
\* status are set; or it throws and the catch adds a debug message only
VideoWritten(w) ==
  /\ w \in writes
  /\ writes' = writes \ {w}
  /\ \/ /\ outFiles' = {f \in outFiles : f.name # w.name}
                         \cup {[name |-> w.name, call |-> w.call, complete |-> TRUE]}
        /\ videoUri' = w.name
        /\ status' = "Video ready"
        /\ fsFails' = fsFails
        /\ debugInfo' = debugInfo
     \/ /\ fsFails + Len(lost) < MaxFaults
        /\ fsFails' = fsFails + 1
        /\ debugInfo' = debugInfo + 1
        /\ \/ outFiles' = outFiles
           \/ outFiles' = {f \in outFiles : f.name # w.name}
                            \cup {[name |-> w.name, call |-> w.call, complete |-> FALSE]}
        /\ UNCHANGED <<videoUri, status>>
  /\ videoLog' = videoLog \cup {[call |-> w.call, name |-> w.name, ok |-> fsFails' = fsFails,
                                 status |-> status', uri |-> videoUri']}
  /\ UNCHANGED <<dirExists, dirFiles, now, progress, fileUris, isLoading, reloadVars, mounted,
                 restVars,
                 mapVars, procVars, call, chanVars, wvVars>>

\* ------------------------------------------------------------ the channel
Without(s, i) == SubSeq(s, 1, i - 1) \o SubSeq(s, i + 1, Len(s))

\* postMessage has no acknowledgement: a message can be lost
LoseMessage ==
  /\ fsFails + Len(lost) < MaxFaults
  /\ \/ \E i \in 1..Len(toWV) :
          /\ toWV' = Without(toWV, i)
          /\ lost' = Append(lost, toWV[i].type)
          /\ toRN' = toRN
     \/ \E i \in 1..Len(toRN) :
          /\ toRN' = Without(toRN, i)
          /\ lost' = Append(lost, toRN[i].type)
          /\ toWV' = toWV
  /\ UNCHANGED <<fsVars, encVars, reloadVars, mounted, restVars, mapVars, procVars, call,
                 wvVars, outVars>>

\* ------------------------------------------------------- the whole pipeline
\* the directory of an earlier run of the application can be left in the cache
Init ==
  /\ \/ dirExists = FALSE /\ dirFiles = {}
     \/ dirExists = TRUE /\ dirFiles = {[name |-> FrameName(7), job |-> 0]}
  /\ now = StartClock
  /\ fsFails = 0
  /\ fileUris = <<>>
  /\ InitEncoder
  /\ InitMap
  /\ InitPipeline
  /\ InitRest

\* one press of the start button and one captured frame, with the WebView, the
\* "Reload Files" button and one fault
Next ==
  \/ StartPress(1)
  \/ StartCleanupInfo(1)
  \/ StartCleanupDelete(1)
  \/ StartEnsureInfo(1)
  \/ StartEnsureMkdir(1)
  \/ CaptureBegin(1)
  \/ CaptureEnsureInfo(1)
  \/ CaptureWrite(1)
  \/ CaptureCheck(1)
  \/ AnimationComplete(1)
  \/ TimeoutFires(1)
  \/ \E id \in FinIds : EncBegin(id)
  \/ \E id \in FinIds : EncLoaded(id)
  \/ \E id \in FinIds : EncBatch(id)
  \/ \E id \in FinIds : EncFinalize(id)
  \/ ReloadPress
  \/ ReloadDone
  \/ WebViewDeliver
  \/ \E h \in handlers : ImageLoaded(h)
  \/ \E e \in FinIds : RecorderStopped(e)
  \/ \E h \in handlers : VideoRead(h)
  \/ HandleMessage
  \/ \E w \in writes : VideoWritten(w)
  \/ LoseMessage

Spec == Init /\ [][Next]_vars

\* the start button pressed up to MaxJobs times, up to MaxCaptures captured frames:
\* the coordinator and the startEncoding calls it makes, the WebView left aside
\* (nothing the WebView posts reaches the state of MapViewExample2)
NextJobs ==
  \/ \E j \in Jobs : StartPress(j)
  \/ \E j \in Jobs : StartCleanupInfo(j)
  \/ \E j \in Jobs : StartCleanupDelete(j)
  \/ \E j \in Jobs : StartEnsureInfo(j)
  \/ \E j \in Jobs : StartEnsureMkdir(j)
  \/ \E c \in Captures : CaptureBegin(c)
  \/ \E c \in Captures : CaptureEnsureInfo(c)
  \/ \E c \in Captures : CaptureEnsureMkdir(c)
  \/ \E c \in Captures : CaptureWrite(c)
  \/ \E c \in Captures : CaptureCheck(c)
  \/ \E j \in Jobs : AnimationComplete(j)
  \/ \E j \in Jobs : TimeoutFires(j)
  \/ \E id \in FinIds : EncBegin(id)
  \/ \E id \in FinIds : EncLoaded(id)
  \/ \E id \in FinIds : EncBatch(id)
  \/ \E id \in FinIds : EncFinalize(id)

SpecJobs == Init /\ [][NextJobs]_vars

\* ------------------------------------------------------------- claim C1
\* startAnimation of job j has been invoked and no startEncoding call of the job
\* has returned yet
JobRunning(j) ==
  \/ startPc[j] \in {"cleanupInfo", "cleanupDelete", "ensureInfo", "ensureMkdir"}
  \/ /\ startPc[j] = "done"
     /\ \A source \in Sources : fin[<<j, source>>] # "done"

\* C1 as stated: no two jobs overlap; from the call of startAnimation to the end of
\* the job's encoding the start button is disabled, so no second job begins.
C1_AsStated ==
  \A j, k \in Jobs : (j < k /\ JobRunning(j)) => startPc[k] = "idle"

\* ------------------------------------------------------------- claim C2
\* C2 as stated: whenever startAnimation sets isAnimating to true the frames
\* directory exists and holds no file, whatever it held before and whatever the
\* delete call did.
C2_AsStated ==
  [][(~isAnimating /\ isAnimating') => (dirExists' /\ dirFiles' = {})]_vars

\* ------------------------------------------------------------- claim C3
\* the cleanupTempDirectory of startAnimation of job k has run
CleanupHasRun(k) == startPc[k] \in {"ensureInfo", "ensureMkdir", "done", "failed"}

\* C3 as stated: an onCapture call that passed its isAnimating check during a job
\* writes no file into the directory once the clean-up of a later job has run.
C3_AsStated ==
  [][\A c \in Captures :
       (cap[c].pc = "write" /\ cap'[c].pc = "written")
         => ~(\E k \in Jobs : k > cap[c].presses /\ CleanupHasRun(k))]_vars

\* ------------------------------------------------------------- claim C5
\* C5 as stated: the list a startEncoding call goes on with behind its load is the
\* sorted list of matching files which that load found, for the first job and for
\* every later one: never the list of an earlier load, never the empty first list
\* when files are there.
C5_AsStated ==
  \A id \in FinIds :
    call[id].pc \in {"sending", "done"} => call[id].closure = call[id].loaded

\* ------------------------------------------------------------- claim C6
\* frame indices first .. last - 1
Indices(first, last) == [k \in 1..(last - first) |-> first + k - 1]

\* one initEncoder, the batches of at most BATCH_SIZE of n frames, one finalizeEncoding
ExpectedPosts(n) ==
  <<Posted("initEncoder", 0, <<>>)>>
    \o [b \in 1..TotalBatches(n) |->
          Posted("encodeBatch", b - 1,
                 Indices((b - 1) * BATCH_SIZE, Min(b * BATCH_SIZE, n)))]
    \o <<Posted("finalizeEncoding", 0, <<>>)>>

\* C6 as stated: a startEncoding call of a job with n >= 1 frames in the directory
\* has posted, when it returns, one initEncoder, then ceil(n/10) encodeBatch with
\* batchIndex 0, 1, ... that carry the frame indices 0..n-1 in order, at most 10
\* each, then one finalizeEncoding.
C6_AsStated ==
  \A id \in FinIds :
    (call[id].pc = "done" /\ Len(call[id].loaded) >= 1)
      => call[id].posted = ExpectedPosts(Len(call[id].loaded))

\* ------------------------------------------------------------- claim C7
ErrorStatus(s) ==
  s \in {"Error: Directory not found", "Error: reading a frame", "Error: WebView error"}

\* C7 as stated: when the handling of a 'video' message ends, either the output
\* file is written completely, videoUri names it and the status is 'Video ready',
\* or the status reports an error; videoUri never names a file whose write did not
\* complete.
C7_AsStated ==
  /\ \A v \in videoLog :
       \/ v.status = "Video ready" /\ v.uri = v.name
       \/ ErrorStatus(v.status)
  /\ \A f \in outFiles : videoUri = f.name => f.complete

\* ------------------------------------------------------------- claim C8
\* the startEncoding calls whose 'video' message handleMessage has taken
VideosHandled == {w.call : w \in writes} \cup {v.call : v \in videoLog}

\* C8 as stated: in a run of one press of the start button at most one 'video'
\* message is handled and at most one output file is written.
C8_AsStated ==
  /\ Cardinality(VideosHandled) <= 1
  /\ Cardinality(outFiles) <= 1

\* ------------------------------------------------------------- claim C9
\* C9 as stated: for one startAnimation the body of finishAnimation runs once, be
\* the end of the run signalled by the completion callback, the backup timeout or
\* both.
C9_AsStated ==
  \A j \in Jobs : ~(fin[<<j, "callback">>] # "idle" /\ fin[<<j, "timeout">>] # "idle")

\* ------------------------------------------------------------ claim C10
\* what goes on by itself: pending file system calls, delays and timers, the
\* animation, the two message listeners, the recorder and the reader.  The presses
\* of the two buttons, the calls of ViewShot and the loss of a message are left to
\* the environment
CoordinatorStep ==
  \/ StartCleanupInfo(1) \/ StartCleanupDelete(1) \/ StartEnsureInfo(1)
  \/ StartEnsureMkdir(1) \/ CaptureEnsureInfo(1) \/ CaptureWrite(1) \/ CaptureCheck(1)
  \/ AnimationComplete(1) \/ TimeoutFires(1)

EncodingStep ==
  \/ \E id \in FinIds : EncBegin(id) \/ EncLoaded(id) \/ EncBatch(id) \/ EncFinalize(id)
  \/ ReloadDone

WebViewStep ==
  \/ WebViewDeliver
  \/ \E h \in handlers : ImageLoaded(h) \/ VideoRead(h)
  \/ \E e \in FinIds : RecorderStopped(e)

MessageStep == HandleMessage \/ \E w \in writes : VideoWritten(w)

FairSpec ==
  /\ Init
  /\ [][Next]_vars
  /\ WF_vars(CoordinatorStep)
  /\ WF_vars(EncodingStep)
  /\ WF_vars(WebViewStep)
  /\ WF_vars(MessageStep)

\* a message of the encoding has been lost on its way
EncodingMessageLost ==
  \E i \in 1..Len(lost) : lost[i] \in {"encodeBatch", "finalizeEncoding", "video"}

\* C10 as stated: after the loss of an encodeBatch, finalizeEncoding or 'video'
\* message the job comes to an end, the video ready or an error status set.
C10_AsStated ==
  EncodingMessageLost ~> (status = "Video ready" \/ ErrorStatus(status))

\* ------------------------------------------------------------ claim C11
\* timers fire; nothing else is required to happen: not the completion callback of
\* the animation, not a pending file system call
FairJobs == SpecJobs /\ WF_vars(\E j \in Jobs : TimeoutFires(j))

\* C11: once startAnimation has set isAnimating the backup timeout sets it back to
\* false, also when the completion callback of the animation never comes.
C11_BackupTimeoutStops == isAnimating ~> ~isAnimating

\* the backup timeout of a job has ended an animation whose callback never came
C11_Witness ==
  \E j \in Jobs :
    /\ fin[<<j, "timeout">>] # "idle"
    /\ fin[<<j, "callback">>] = "idle"
    /\ startPc[j] = "done"
    /\ ~isAnimating

\* ------------------------------------------------------------ claim C12
\* the start button pressed up to MaxJobs times and the component unmounted at any
\* moment, captures left aside
NextUnmount ==
  \/ \E j \in Jobs : StartPress(j)
  \/ \E j \in Jobs : StartCleanupInfo(j)
  \/ \E j \in Jobs : StartCleanupDelete(j)
  \/ \E j \in Jobs : StartEnsureInfo(j)
  \/ \E j \in Jobs : StartEnsureMkdir(j)
  \/ \E j \in Jobs : AnimationComplete(j)
  \/ \E j \in Jobs : TimeoutFires(j)
  \/ \E id \in FinIds : EncBegin(id)
  \/ \E id \in FinIds : EncLoaded(id)
  \/ Unmount

SpecUnmount == Init /\ [][NextUnmount]_vars

\* C12 as stated: once the clean-up of the unmount has run no animation timeout of
\* the component is scheduled, nor is one created later, however the unmount
\* interleaves with a startAnimation suspended in its clean-up of the directory.
C12_AsStated == ~mounted => (timeouts = {} /\ anim = 0)

\* ------------------------------------------------------------ claim C13
\* C13 as stated: every error caught in an asynchronous step of
\* DirectoryVideoEncoder sets the status to an error string; so does the catch of
\* handleMessage when the write of the video file throws.
C13_AsStated == \A v \in videoLog : ~v.ok => ErrorStatus(v.status)

\* ------------------------------------------------------------ claim C16
\* the output files the 'video' handlers have written for the call id
FilesOf(id) == {f.name : f \in {g \in outFiles : g.call = id /\ g.complete}}

\* C16 as stated: shareVideo runs for a startEncoding call that sent its frames
\* only with the videoUri of the file written for that call: not while videoUri is
\* null, not with the file of an earlier call.
C16_AsStated ==
  \A id \in FinIds :
    (call[id].pc = "done" /\ call[id].posted # <<>>) => call[id].shareUri \in FilesOf(id)

\* ------------------------------------------- calculateCoordinates (claim C15)
\* Coordinates are counted in 10^-7 degrees, angles given to Math.sin and Math.cos
\* in half degrees, their results in ten-thousandths.
MaxAngle == 359     \* angles 0..MaxAngle are sampled, each with angle + 360

CENTER_LATITUDE == 267690000
CENTER_LONGITUDE == 0 - 773031000
RADIUS == 50000
BOUNCE_AMPLITUDE == 5000
TrigScale == 10000

\* Math.sin of k half degrees, k in 0..719, to four decimals
SinTable ==
  <<
    0, 87, 175, 262, 349, 436, 523, 610, 698, 785, 872, 958,
    1045, 1132, 1219, 1305, 1392, 1478, 1564, 1650, 1736, 1822, 1908, 1994,
    2079, 2164, 2250, 2334, 2419, 2504, 2588, 2672, 2756, 2840, 2924, 3007,
    3090, 3173, 3256, 3338, 3420, 3502, 3584, 3665, 3746, 3827, 3907, 3987,
    4067, 4147, 4226, 4305, 4384, 4462, 4540, 4617, 4695, 4772, 4848, 4924,
    5000, 5075, 5150, 5225, 5299, 5373, 5446, 5519, 5592, 5664, 5736, 5807,
    5878, 5948, 6018, 6088, 6157, 6225, 6293, 6361, 6428, 6494, 6561, 6626,
    6691, 6756, 6820, 6884, 6947, 7009, 7071, 7133, 7193, 7254, 7314, 7373,
    7431, 7490, 7547, 7604, 7660, 7716, 7771, 7826, 7880, 7934, 7986, 8039,
    8090, 8141, 8192, 8241, 8290, 8339, 8387, 8434, 8480, 8526, 8572, 8616,
    8660, 8704, 8746, 8788, 8829, 8870, 8910, 8949, 8988, 9026, 9063, 9100,
    9135, 9171, 9205, 9239, 9272, 9304, 9336, 9367, 9397, 9426, 9455, 9483,
    9511, 9537, 9563, 9588, 9613, 9636, 9659, 9681, 9703, 9724, 9744, 9763,
    9781, 9799, 9816, 9833, 9848, 9863, 9877, 9890, 9903, 9914, 9925, 9936,
    9945, 9954, 9962, 9969, 9976, 9981, 9986, 9990, 9994, 9997, 9998, 10000,
    10000, 10000, 9998, 9997, 9994, 9990, 9986, 9981, 9976, 9969, 9962, 9954,
    9945, 9936, 9925, 9914, 9903, 9890, 9877, 9863, 9848, 9833, 9816, 9799,
    9781, 9763, 9744, 9724, 9703, 9681, 9659, 9636, 9613, 9588, 9563, 9537,
    9511, 9483, 9455, 9426, 9397, 9367, 9336, 9304, 9272, 9239, 9205, 9171,
    9135, 9100, 9063, 9026, 8988, 8949, 8910, 8870, 8829, 8788, 8746, 8704,
    8660, 8616, 8572, 8526, 8480, 8434, 8387, 8339, 8290, 8241, 8192, 8141,
    8090, 8039, 7986, 7934, 7880, 7826, 7771, 7716, 7660, 7604, 7547, 7490,
    7431, 7373, 7314, 7254, 7193, 7133, 7071, 7009, 6947, 6884, 6820, 6756,
    6691, 6626, 6561, 6494, 6428, 6361, 6293, 6225, 6157, 6088, 6018, 5948,
    5878, 5807, 5736, 5664, 5592, 5519, 5446, 5373, 5299, 5225, 5150, 5075,
    5000, 4924, 4848, 4772, 4695, 4617, 4540, 4462, 4384, 4305, 4226, 4147,
    4067, 3987, 3907, 3827, 3746, 3665, 3584, 3502, 3420, 3338, 3256, 3173,
    3090, 3007, 2924, 2840, 2756, 2672, 2588, 2504, 2419, 2334, 2250, 2164,
    2079, 1994, 1908, 1822, 1736, 1650, 1564, 1478, 1392, 1305, 1219, 1132,
    1045, 958, 872, 785, 698, 610, 523, 436, 349, 262, 175, 87,
    0, -87, -175, -262, -349, -436, -523, -610, -698, -785, -872, -958,
    -1045, -1132, -1219, -1305, -1392, -1478, -1564, -1650, -1736, -1822, -1908, -1994,
    -2079, -2164, -2250, -2334, -2419, -2504, -2588, -2672, -2756, -2840, -2924, -3007,
    -3090, -3173, -3256, -3338, -3420, -3502, -3584, -3665, -3746, -3827, -3907, -3987,
    -4067, -4147, -4226, -4305, -4384, -4462, -4540, -4617, -4695, -4772, -4848, -4924,
    -5000, -5075, -5150, -5225, -5299, -5373, -5446, -5519, -5592, -5664, -5736, -5807,
    -5878, -5948, -6018, -6088, -6157, -6225, -6293, -6361, -6428, -6494, -6561, -6626,
    -6691, -6756, -6820, -6884, -6947, -7009, -7071, -7133, -7193, -7254, -7314, -7373,
    -7431, -7490, -7547, -7604, -7660, -7716, -7771, -7826, -7880, -7934, -7986, -8039,
    -8090, -8141, -8192, -8241, -8290, -8339, -8387, -8434, -8480, -8526, -8572, -8616,
    -8660, -8704, -8746, -8788, -8829, -8870, -8910, -8949, -8988, -9026, -9063, -9100,
    -9135, -9171, -9205, -9239, -9272, -9304, -9336, -9367, -9397, -9426, -9455, -9483,
    -9511, -9537, -9563, -9588, -9613, -9636, -9659, -9681, -9703, -9724, -9744, -9763,
    -9781, -9799, -9816, -9833, -9848, -9863, -9877, -9890, -9903, -9914, -9925, -9936,
    -9945, -9954, -9962, -9969, -9976, -9981, -9986, -9990, -9994, -9997, -9998, -10000,
    -10000, -10000, -9998, -9997, -9994, -9990, -9986, -9981, -9976, -9969, -9962, -9954,
    -9945, -9936, -9925, -9914, -9903, -9890, -9877, -9863, -9848, -9833, -9816, -9799,
    -9781, -9763, -9744, -9724, -9703, -9681, -9659, -9636, -9613, -9588, -9563, -9537,
    -9511, -9483, -9455, -9426, -9397, -9367, -9336, -9304, -9272, -9239, -9205, -9171,
    -9135, -9100, -9063, -9026, -8988, -8949, -8910, -8870, -8829, -8788, -8746, -8704,
    -8660, -8616, -8572, -8526, -8480, -8434, -8387, -8339, -8290, -8241, -8192, -8141,
    -8090, -8039, -7986, -7934, -7880, -7826, -7771, -7716, -7660, -7604, -7547, -7490,
    -7431, -7373, -7314, -7254, -7193, -7133, -7071, -7009, -6947, -6884, -6820, -6756,
    -6691, -6626, -6561, -6494, -6428, -6361, -6293, -6225, -6157, -6088, -6018, -5948,
    -5878, -5807, -5736, -5664, -5592, -5519, -5446, -5373, -5299, -5225, -5150, -5075,
    -5000, -4924, -4848, -4772, -4695, -4617, -4540, -4462, -4384, -4305, -4226, -4147,
    -4067, -3987, -3907, -3827, -3746, -3665, -3584, -3502, -3420, -3338, -3256, -3173,
    -3090, -3007, -2924, -2840, -2756, -2672, -2588, -2504, -2419, -2334, -2250, -2164,
    -2079, -1994, -1908, -1822, -1736, -1650, -1564, -1478, -1392, -1305, -1219, -1132,
    -1045, -958, -872, -785, -698, -610, -523, -436, -349, -262, -175, -87
  >>

\* Math.sin and Math.cos return doubles whose last place ECMAScript leaves to the
\* implementation, and the argument angle * Math.PI / 180 is rounded differently for
\* angle and angle + 360: the result is the nearest table value or a neighbour of
\* it, ulp in -1..1
MathSin(halfDegrees, ulp) == SinTable[(halfDegrees % 720) + 1] + ulp

MathCos(halfDegrees, ulp) == SinTable[((halfDegrees + 180) % 720) + 1] + ulp

\* angle * Math.PI / divisor, in half degrees; the divisor is given in tenths
Radians(angle, divisorTenths) == (angle * 3600) \div divisorTenths

\* a bounce with a divisor of 48 in place of 22.5
BounceOfDivisor48(angle, ulp) ==
  (MathSin(Radians(angle, 480), ulp) * BOUNCE_AMPLITUDE) \div TrigScale

\* Math.sin(angle * Math.PI / 22.5) * BOUNCE_AMPLITUDE
VerticalBounce(angle, ulp) ==
  (MathSin(Radians(angle, 225), ulp) * BOUNCE_AMPLITUDE) \div TrigScale

calculateCoordinates(angle, includeVerticalBounce, ulp) ==
  LET radians == Radians(angle, 1800)
      verticalBounce == IF includeVerticalBounce THEN VerticalBounce(angle, ulp) ELSE 0
  IN  [latitude |-> CENTER_LATITUDE + (RADIUS * MathCos(radians, ulp)) \div TrigScale
                      + verticalBounce,
       longitude |-> CENTER_LONGITUDE + (RADIUS * MathSin(radians, ulp)) \div TrigScale]

\* MapExample.js: the same circle around another centre, never a bounce
CENTER_LATITUDE_JS == 377882500
CENTER_LONGITUDE_JS == 0 - 1224324000

getBoatPosition(angle, ulp) ==
  LET radians == Radians(angle, 1800)
  IN  [latitude |-> CENTER_LATITUDE_JS + (RADIUS * MathCos(radians, ulp)) \div TrigScale,
       longitude |-> CENTER_LONGITUDE_JS + (RADIUS * MathSin(radians, ulp)) \div TrigScale]

\* the position function of either component
PositionOf(component, angle, includeVerticalBounce, ulp) ==
  IF component = "MapExample2.tsx"
    THEN calculateCoordinates(angle, includeVerticalBounce, ulp)
    ELSE getBoatPosition(angle, ulp)

\* the main variables stay as they are while another component is looked at
mainVars ==
  <<fsVars, encVars, reloadVars, mapVars, procVars, call, chanVars, wvVars, outVars, mounted>>

InitMain ==
  /\ dirExists = FALSE
  /\ dirFiles = {}
  /\ now = StartClock
  /\ fsFails = 0
  /\ fileUris = <<>>
  /\ InitEncoder
  /\ InitMap
  /\ InitPipeline

\* a call of the position function for an angle, later one for the angle + 360
InitPosition ==
  /\ InitMain
  /\ mapExample = NULL
  /\ createVideo = NULL
  /\ webViewEncoder = NULL
  /\ \E angle \in 0..MaxAngle, includeVerticalBounce \in BOOLEAN,
        component \in {"MapExample2.tsx", "MapExample.js"} :
       /\ component = "MapExample.js" => ~includeVerticalBounce
       /\ sample = [component |-> component, angle |-> angle,
                    includeVerticalBounce |-> includeVerticalBounce,
                    first |-> NULL, second |-> NULL]

SampleFirst ==
  /\ sample.first = NULL
  /\ \E ulp \in -1..1 :
       sample' = [sample EXCEPT
                    !.first = PositionOf(sample.component, sample.angle,
                                         sample.includeVerticalBounce, ulp)]
  /\ UNCHANGED <<mainVars, mapExample, createVideo, webViewEncoder>>

SampleSecond ==
  /\ sample.first # NULL
  /\ sample.second = NULL
  /\ \E ulp \in -1..1 :
       sample' = [sample EXCEPT
                    !.second = PositionOf(sample.component, sample.angle + 360,
                                          sample.includeVerticalBounce, ulp)]
  /\ UNCHANGED <<mainVars, mapExample, createVideo, webViewEncoder>>

NextPosition == SampleFirst \/ SampleSecond

SpecPosition == InitPosition /\ [][NextPosition]_vars

Abs(x) == IF x < 0 THEN 0 - x ELSE x

Sampled == sample # NULL /\ sample.first # NULL /\ sample.second # NULL

RoundingBound == (2 * (RADIUS + BOUNCE_AMPLITUDE)) \div TrigScale + 1

MaxPresses == 2     \* presses of the start button
MaxTicks == 363     \* interval ticks since the last reset of the trail

Presses == 1..MaxPresses

\* the first component has the start button, the second one starts its interval in
\* a mount effect
InitTrail ==
  /\ InitMain
  /\ sample = NULL
  /\ createVideo = NULL
  /\ webViewEncoder = NULL
  /\ \E component \in {"startAnimation", "mountEffect"} :
       mapExample = [component |-> component,
                     startPc |-> [j \in Presses |-> "idle"],
                     angle |-> 0,
                     trailPoints |-> <<>>,
                     isAnimating |-> FALSE,
                     intervalRef |-> 0,
                     intervals |-> IF component = "mountEffect" THEN {1} ELSE {},
                     animationTimeoutRef |-> 0,
                     timeouts |-> {},
                     ticks |-> 0,
                     starts |-> 0]

\* the button is enabled while isAnimating is false; startAnimation clears the
\* interval and the timeout its refs name and awaits cleanupTempDirectory
IvStartPress(j) ==
  /\ mapExample.component = "startAnimation"
  /\ ~mapExample.isAnimating
  /\ mapExample.startPc[j] = "idle"
  /\ j > 1 => mapExample.startPc[j - 1] # "idle"
  /\ mapExample' = [mapExample EXCEPT
                      !.startPc[j] = "cleanup",
                      !.intervals = @ \ {mapExample.intervalRef},
                      !.timeouts = @ \ {mapExample.animationTimeoutRef}]
  /\ UNCHANGED <<mainVars, sample, createVideo, webViewEncoder>>

\* cleanupTempDirectory catches its errors; ensureFramesDirectory is awaited next
IvStartCleanup(j) ==
  /\ mapExample.startPc[j] = "cleanup"
  /\ mapExample' = [mapExample EXCEPT !.startPc[j] = "ensure"]
  /\ UNCHANGED <<mainVars, sample, createVideo, webViewEncoder>>

\* ensureFramesDirectory throws and startAnimation ends, or the states are reset
\* and the interval and the stop timeout are created
IvStartBody(j) ==
  /\ mapExample.startPc[j] = "ensure"
  /\ \E ok \in BOOLEAN :
       mapExample' =
         IF ok
           THEN [mapExample EXCEPT
                   !.startPc[j] = "done",
                   !.angle = 0,
                   !.trailPoints = <<>>,
                   !.isAnimating = TRUE,
                   !.intervalRef = j,
                   !.intervals = @ \cup {j},
                   !.animationTimeoutRef = j,
                   !.timeouts = @ \cup {j},
                   !.ticks = 0,
                   !.starts = @ + 1]
           ELSE [mapExample EXCEPT !.startPc[j] = "failed"]
  /\ UNCHANGED <<mainVars, sample, createVideo, webViewEncoder>>

\* a tick that appends at the wrap to angle 0 too
IvTickAppendsAlways(i) ==
  /\ i \in mapExample.intervals
  /\ mapExample.ticks < MaxTicks
  /\ LET newAngle == (mapExample.angle + 1) % 360
         newPoint == getBoatPosition(newAngle, 0)
     IN  mapExample' = [mapExample EXCEPT
                          !.angle = newAngle,
                          !.trailPoints = Append(@, newPoint),
                          !.ticks = @ + 1]
  /\ UNCHANGED <<mainVars, sample, createVideo, webViewEncoder>>

\* the interval callback: setAngle with the updater that calls setTrailPoints
IvTick(i) ==
  /\ i \in mapExample.intervals
  /\ mapExample.ticks < MaxTicks
  /\ LET newAngle == (mapExample.angle + 1) % 360
         newPoint == getBoatPosition(newAngle, 0)
     IN  mapExample' = [mapExample EXCEPT
                          !.angle = newAngle,
                          !.trailPoints = IF newAngle = 0 THEN <<newPoint>>
                                          ELSE Append(@, newPoint),
                          !.ticks = @ + 1]
  /\ UNCHANGED <<mainVars, sample, createVideo, webViewEncoder>>

\* the stop timeout: clearInterval(intervalRef.current), setIsAnimating(false);
\* the encoding it starts a second later is the one of EncodingStep
IvStop(j) ==
  /\ j \in mapExample.timeouts
  /\ mapExample' = [mapExample EXCEPT
                      !.timeouts = @ \ {j},
                      !.intervals = @ \ {mapExample.intervalRef},
                      !.isAnimating = FALSE]
  /\ UNCHANGED <<mainVars, sample, createVideo, webViewEncoder>>

NextTrail ==
  \/ \E j \in Presses : IvStartPress(j)
  \/ \E j \in Presses : IvStartCleanup(j)
  \/ \E j \in Presses : IvStartBody(j)
  \/ \E i \in Presses : IvTick(i)
  \/ \E j \in Presses : IvStop(j)

SpecTrail == InitTrail /\ [][NextTrail]_vars

\* C14: a tick appends exactly one point to the trail, except a tick whose new
\* angle is 0, which leaves the single new point; a step that changes the trail is
\* a tick or a start.
C14_TickAppendsOnePoint ==
  [][LET isTick == mapExample'.ticks = mapExample.ticks + 1
         isStart == mapExample'.starts = mapExample.starts + 1
         newPoint == getBoatPosition(mapExample'.angle, 0)
     IN  /\ isTick =>
              mapExample'.trailPoints =
                IF mapExample'.angle = 0 THEN <<newPoint>>
                ELSE Append(mapExample.trailPoints, newPoint)
         /\ mapExample'.trailPoints # mapExample.trailPoints => isTick \/ isStart
    ]_vars

\* the button's animation has wrapped to angle 0 and ticked once more
C14_Witness ==
  /\ mapExample.component = "startAnimation"
  /\ mapExample.ticks = 361
  /\ mapExample.angle = 1
  /\ mapExample.trailPoints = <<getBoatPosition(0, 0), getBoatPosition(1, 0)>>


\* -------------------------- WebViewVideoEncoder.createVideo (claims C17 and C18)
MaxUris == 3        \* length of the fileUris option

UriPool == {"file:///a.png", "file:///b.png", "file:///c.png"}

RECURSIVE UriLists(_)
UriLists(n) ==
  IF n = 0 THEN {<<>>}
  ELSE LET shorter == UriLists(n - 1)
       IN  shorter \cup {Append(l, u) : l \in {m \in shorter : Len(m) = n - 1}, u \in UriPool}

\* the option is missing (undefined) or a list; any of the files may exist
InitCreateVideo ==
  /\ InitMain
  /\ mapExample = NULL
  /\ sample = NULL
  /\ webViewEncoder = NULL
  /\ \E given \in BOOLEAN, uris \in UriLists(MaxUris), existing \in SUBSET UriPool :
       /\ ~given => uris = <<>>
       /\ createVideo = [given |-> given,
                         fileUris |-> uris,
                         existing |-> existing,
                         pc |-> "start",
                         i |-> 1,
                         promise |-> "pending",
                         error |-> NULL,
                         value |-> NULL,
                         component |-> NULL,
                         called |-> <<>>]

\* the Error of a throw in the async function rejects its promise
Throw(message) ==
  [createVideo EXCEPT !.pc = "returned", !.promise = "rejected", !.error = message]

\* if (!fileUris || fileUris.length === 0) throw
CvCall ==
  /\ createVideo.pc = "start"
  /\ createVideo' =
       IF ~createVideo.given \/ createVideo.fileUris = <<>>
         THEN Throw([message |-> "No input files provided", uri |-> ""])
         ELSE [createVideo EXCEPT !.pc = "validate"]
  /\ UNCHANGED <<mainVars, mapExample, sample, webViewEncoder>>

\* a validation that takes every file for an existing one
CvGetInfoTrusting ==
  /\ createVideo.pc = "validate"
  /\ createVideo' =
       [createVideo EXCEPT
          !.i = @ + 1,
          !.pc = IF createVideo.i = Len(createVideo.fileUris) THEN "executor" ELSE @]
  /\ UNCHANGED <<mainVars, mapExample, sample, webViewEncoder>>

\* one round of the loop: await getInfoAsync(uri), throw if it does not exist
CvGetInfo ==
  /\ createVideo.pc = "validate"
  /\ LET uri == createVideo.fileUris[createVideo.i]
     IN  createVideo' =
           IF uri \notin createVideo.existing
             THEN Throw([message |-> "File not found: ", uri |-> uri])
             ELSE [createVideo EXCEPT
                     !.i = @ + 1,
                     !.pc = IF createVideo.i = Len(createVideo.fileUris) THEN "executor"
                            ELSE @]
  /\ UNCHANGED <<mainVars, mapExample, sample, webViewEncoder>>

\* return new Promise(executor): the executor makes the element and returns an
\* object, which the Promise constructor drops; resolveVideo and rejectVideo are
\* held by the element's props alone, and the element is handed to nobody
CvExecutor ==
  /\ createVideo.pc = "executor"
  /\ createVideo' = [createVideo EXCEPT
                       !.pc = "returned",
                       !.component = [type |-> "WebViewEncoder",
                                      fileUris |-> createVideo.fileUris,
                                      rendered |-> FALSE]]
  /\ UNCHANGED <<mainVars, mapExample, sample, webViewEncoder>>

NextCreateVideo == CvCall \/ CvGetInfo \/ CvExecutor

SpecCreateVideo == InitCreateVideo /\ [][NextCreateVideo]_vars

FairCreateVideo == SpecCreateVideo /\ WF_vars(NextCreateVideo)

CvValidInput ==
  /\ createVideo.given
  /\ createVideo.fileUris # <<>>
  /\ \A k \in 1..Len(createVideo.fileUris) : createVideo.fileUris[k] \in createVideo.existing

\* C17 as stated: a call with a non-empty list of existing files settles with an
\* object that holds the component and the output path.
C17_AsStated ==
  (createVideo.pc = "validate" /\ CvValidInput)
    ~> (createVideo.promise = "resolved" /\ createVideo.value # NULL)

\* the first listed file that does not exist
FirstMissing(uris, existing) ==
  uris[CHOOSE k \in 1..Len(uris) :
         /\ uris[k] \notin existing
         /\ \A m \in 1..(k - 1) : uris[m] \in existing]

\* C18: a call without files is rejected with 'No input files provided', a call
\* with a missing file with 'File not found: ' and the first missing uri; neither
\* creates the component or calls a callback, and the executor runs for existing
\* files only.
C18_RejectsBadInput ==
  /\ createVideo.pc \in {"executor", "returned"} /\ createVideo.promise # "rejected"
       => CvValidInput
  /\ createVideo.pc = "returned" /\ ~CvValidInput =>
       /\ createVideo.promise = "rejected"
       /\ createVideo.component = NULL
       /\ createVideo.called = <<>>
       /\ createVideo.error =
            IF ~createVideo.given \/ createVideo.fileUris = <<>>
              THEN [message |-> "No input files provided", uri |-> ""]
              ELSE [message |-> "File not found: ",
                    uri |-> FirstMissing(createVideo.fileUris, createVideo.existing)]

\* rejected for the second file of three, the first exists, the third does not
C18_Witness ==
  /\ createVideo.fileUris = <<"file:///a.png", "file:///b.png", "file:///c.png">>
  /\ createVideo.existing = {"file:///a.png"}
  /\ createVideo.promise = "rejected"
  /\ createVideo.error = [message |-> "File not found: ", uri |-> "file:///b.png"]
  /\ createVideo.i = 2


\* ----------------------- WebViewEncoder of WebViewVideoEncoder.js (claims C19, C20)
MaxFrames == 3      \* length of fileUris of the rendered encoder

DEFAULT_WIDTH == 640
DEFAULT_HEIGHT == 480

\* a || b of JavaScript for numbers: b when a is 0
OrElse(a, b) == IF a = 0 THEN b ELSE a

\* a progress of index + 2 frames
ProgressAhead(index, total) == <<index + 2, total>>

\* (index + 1) / total, kept as the fraction; the division of doubles is rounded
\* correctly, so it keeps the order of the fractions and n / n is 1
Progress(index, total) == <<index + 1, total>>

FractionLeq(a, b) == a[1] * b[2] <= b[1] * a[2]

\* a request that names the frame just drawn once more
SameIndex(currentIndex) == currentIndex

\* setCurrentImageIndex(message.currentIndex + 1)
NextIndex(currentIndex) == currentIndex + 1

\* the component is rendered with its options; the page has not loaded yet; sent
\* lists the frames sent to the page, failed tells that a read or an image load
\* has failed, written that the output file is written
InitWebViewEncoder ==
  /\ InitMain
  /\ mapExample = NULL
  /\ sample = NULL
  /\ createVideo = NULL
  /\ \E n \in 1..MaxFrames, width \in {0, 320}, height \in {0, 240},
        first \in {[width |-> 800, height |-> 600], [width |-> 640, height |-> 480]} :
       webViewEncoder = [total |-> n, width |-> width, height |-> height,
                         firstImage |-> first,
                         page |-> "loading",
                         initialized |-> FALSE,
                         encodingStarted |-> FALSE,
                         currentImageIndex |-> -1,
                         effect |-> FALSE,
                         toWeb |-> <<>>,
                         toRN |-> <<>>,
                         imageWidth |-> 0,
                         imageHeight |-> 0,
                         canvas |-> [width |-> 300, height |-> 150],
                         recorder |-> "none",
                         image |-> NULL,
                         stopTimer |-> FALSE,
                         drawn |-> 0,
                         sent |-> <<>>,
                         failed |-> FALSE,
                         written |-> FALSE,
                         onProgress |-> <<>>,
                         onComplete |-> 0,
                         onError |-> 0]

\* DOMContentLoaded: the page posts 'initialized'
WeDomContentLoaded ==
  /\ webViewEncoder.page = "loading"
  /\ webViewEncoder' = [webViewEncoder EXCEPT
                          !.page = "ready",
                          !.toRN = Append(@, [type |-> "initialized"])]
  /\ UNCHANGED <<mainVars, mapExample, sample, createVideo>>

\* handleMessage of the component, for the next message of the page
WeHandleMessage ==
  /\ webViewEncoder.toRN # <<>>
  /\ LET message == Head(webViewEncoder.toRN)
         rest == [webViewEncoder EXCEPT !.toRN = Tail(@)]
     IN  webViewEncoder' =
           CASE message.type = "initialized" ->
                  [rest EXCEPT !.initialized = TRUE,
                               !.toWeb = Append(@, [type |-> "start",
                                                    width |-> webViewEncoder.width,
                                                    height |-> webViewEncoder.height])]
             [] message.type = "recordingStarted" ->
                  [rest EXCEPT !.encodingStarted = TRUE,
                               !.currentImageIndex = 0,
                               !.effect = TRUE]
             [] message.type = "requestNextFrame" ->
                  [rest EXCEPT !.currentImageIndex = NextIndex(message.currentIndex),
                               !.effect = TRUE]
             [] message.type = "progress" ->
                  [rest EXCEPT !.onProgress = Append(@, message.progress)]
             [] message.type = "complete" ->
                  [rest EXCEPT !.written = TRUE, !.onComplete = @ + 1]
             [] message.type = "error" ->
                  [rest EXCEPT !.onError = @ + 1]
  /\ UNCHANGED <<mainVars, mapExample, sample, createVideo>>

\* the 'complete' message whose writeAsStringAsync fails
WeHandleCompleteFails ==
  /\ webViewEncoder.toRN # <<>>
  /\ Head(webViewEncoder.toRN).type = "complete"
  /\ webViewEncoder' = [webViewEncoder EXCEPT !.toRN = Tail(@), !.onError = @ + 1]
  /\ UNCHANGED <<mainVars, mapExample, sample, createVideo>>

\* the effect of currentImageIndex: read the file and send it to the page, or
\* report the error of the read
WeProcessCurrentImage ==
  /\ webViewEncoder.effect
  /\ \E ok \in BOOLEAN :
       webViewEncoder' =
         IF /\ webViewEncoder.currentImageIndex >= 0
            /\ webViewEncoder.currentImageIndex < webViewEncoder.total
            /\ webViewEncoder.encodingStarted
           THEN IF ok
                  THEN [webViewEncoder EXCEPT
                          !.effect = FALSE,
                          !.sent = Append(@, webViewEncoder.currentImageIndex),
                          !.toWeb = Append(@, [type |-> "processFrame",
                                               index |-> webViewEncoder.currentImageIndex,
                                               total |-> webViewEncoder.total])]
                  ELSE [webViewEncoder EXCEPT !.effect = FALSE, !.failed = TRUE,
                                                   !.onError = @ + 1]
           ELSE [webViewEncoder EXCEPT !.effect = FALSE]
  /\ UNCHANGED <<mainVars, mapExample, sample, createVideo>>

\* the page's message listener: startRecording or the start of processFrame
WePageMessage ==
  /\ webViewEncoder.toWeb # <<>>
  /\ LET message == Head(webViewEncoder.toWeb)
         rest == [webViewEncoder EXCEPT !.toWeb = Tail(@)]
     IN  webViewEncoder' =
           IF message.type = "start"
             THEN LET w == OrElse(message.width, DEFAULT_WIDTH)
                      h == OrElse(message.height, DEFAULT_HEIGHT)
                  IN  [rest EXCEPT !.imageWidth = w,
                                   !.imageHeight = h,
                                   !.canvas = [width |-> w, height |-> h],
                                   !.recorder = "recording",
                                   !.toRN = Append(@, [type |-> "recordingStarted"])]
             ELSE [rest EXCEPT !.image = [index |-> message.index, total |-> message.total]]
  /\ UNCHANGED <<mainVars, mapExample, sample, createVideo>>

\* img.onload: the first frame sets the canvas if no size is known, the frame is
\* drawn, the progress is posted, and the next frame is requested or the stop timer
\* is set; img.onerror posts an error
WeImageLoaded ==
  /\ webViewEncoder.image # NULL
  /\ LET index == webViewEncoder.image.index
         total == webViewEncoder.image.total
         auto == index = 0 /\ (webViewEncoder.imageWidth = 0 \/ webViewEncoder.imageHeight = 0)
         posts == <<[type |-> "progress", progress |-> Progress(index, total)]>>
                  \o (IF index < total - 1
                        THEN <<[type |-> "requestNextFrame", currentIndex |-> index]>>
                        ELSE <<>>)
     IN  \E ok \in BOOLEAN :
           webViewEncoder' =
             IF ok
               THEN [webViewEncoder EXCEPT
                       !.image = NULL,
                       !.imageWidth = IF auto THEN webViewEncoder.firstImage.width ELSE @,
                       !.imageHeight = IF auto THEN webViewEncoder.firstImage.height ELSE @,
                       !.canvas = IF auto THEN webViewEncoder.firstImage ELSE @,
                       !.drawn = @ + 1,
                       !.toRN = @ \o posts,
                       !.stopTimer = IF index < total - 1 THEN @ ELSE TRUE]
               ELSE [webViewEncoder EXCEPT
                       !.image = NULL,
                       !.failed = TRUE,
                       !.toRN = Append(@, [type |-> "error"])]
  /\ UNCHANGED <<mainVars, mapExample, sample, createVideo>>

\* a stopRecording that posts nothing
WeStopRecordingSilent ==
  /\ webViewEncoder.stopTimer
  /\ webViewEncoder' = [webViewEncoder EXCEPT !.stopTimer = FALSE, !.recorder = "inactive"]
  /\ UNCHANGED <<mainVars, mapExample, sample, createVideo>>

\* 100 ms after the last frame: stopRecording, onstop and the reader's onloadend
\* post the video
WeStopRecording ==
  /\ webViewEncoder.stopTimer
  /\ webViewEncoder' =
       IF webViewEncoder.recorder = "recording"
         THEN [webViewEncoder EXCEPT !.stopTimer = FALSE,
                                     !.recorder = "inactive",
                                     !.toRN = Append(@, [type |-> "complete"])]
         ELSE [webViewEncoder EXCEPT !.stopTimer = FALSE]
  /\ UNCHANGED <<mainVars, mapExample, sample, createVideo>>

NextWebViewEncoder ==
  \/ WeDomContentLoaded
  \/ WeHandleMessage
  \/ WeHandleCompleteFails
  \/ WeProcessCurrentImage
  \/ WePageMessage
  \/ WeImageLoaded
  \/ WeStopRecording

SpecWebViewEncoder == InitWebViewEncoder /\ [][NextWebViewEncoder]_vars

\* C19 as stated: once the first frame is drawn, the canvas has the size of the
\* first image if neither width nor height was supplied, and the supplied size if
\* both were.
C19_AsStated ==
  webViewEncoder.drawn >= 1 =>
    /\ (webViewEncoder.width = 0 /\ webViewEncoder.height = 0)
         => webViewEncoder.canvas = webViewEncoder.firstImage
    /\ (webViewEncoder.width # 0 /\ webViewEncoder.height # 0)
         => webViewEncoder.canvas = [width |-> webViewEncoder.width,
                                     height |-> webViewEncoder.height]

\* C20: every value given to onProgress lies between 0 and 1, no value is less
\* than the one before it, and the value for the last of the n frames is 1.
C20_ProgressMonotoneToOne ==
  LET p == webViewEncoder.onProgress
  IN  /\ Len(p) <= webViewEncoder.total
      /\ \A k \in 1..Len(p) : FractionLeq(<<0, 1>>, p[k]) /\ FractionLeq(p[k], <<1, 1>>)
      /\ \A k \in 1..(Len(p) - 1) : FractionLeq(p[k], p[k + 1])
      /\ Len(p) = webViewEncoder.total =>
           p[Len(p)] = <<webViewEncoder.total, webViewEncoder.total>>

\* a job of three frames whose progress calls have all been made
C20_Witness ==
  /\ webViewEncoder.total = 3
  /\ webViewEncoder.onProgress = <<Progress(0, 3), Progress(1, 3), Progress(2, 3)>>
  /\ webViewEncoder.onComplete = 1


\* ------------------ the WebView script of DirectoryVideoEncoder (claims C21..C24)
MaxBatchFrames == 11    \* frames of the job whose batches the script receives
MaxEncodeFrames == 2    \* frames of an 'encode' message

FirstCall == <<1, "callback">>

FrameUris(n) == PrefixAll([k \in 1..n |-> FrameName(k)])

\* encodeFrames posts the status and the progress before each addFrame call
EncodePosts(i, n) ==
  <<ToReactNative("status", TempEncoder, "Processing frame", 0),
    ToReactNative("progress", TempEncoder, "", 500 + (500 * i) \div n)>>

\* the 'encode' message: new PNGToMP4Encoder, encodeFrames up to the await of
\* initialize(frames[0].data)
EncodeDeliver ==
  /\ toWV # <<>>
  /\ Head(toWV).type = "encode"
  /\ toWV' = Tail(toWV)
  /\ encoders' = [encoders EXCEPT ![TempEncoder] = NewEncoder]
  /\ handlers' = handlers \cup
       {[kind |-> "encode", call |-> TempEncoder, batchIndex |-> 0, totalBatches |-> 0,
         n |-> Len(Head(toWV).images), images |-> Head(toWV).images,
         enc |-> TempEncoder, mode |-> "init"]}
  /\ toRN' = Append(toRN, ToReactNative("status", TempEncoder, "Initializing encoder...", 0))
  /\ UNCHANGED <<fsVars, encVars, reloadVars, mounted, restVars, mapVars, procVars, call, lost,
                 encoder, outVars>>

\* img.onload of encodeFrames.  In initialize(): startRecording, and behind the
\* await startRecording once more, then addFrame(frames[0]).  In addFrame(): the
\* frame is drawn, then the next addFrame, or stopRecording behind the last frame
EncodeImageLoaded(h) ==
  /\ h \in handlers
  /\ h.kind = "encode"
  /\ IF h.mode = "init"
     THEN /\ encoders' = [encoders EXCEPT ![h.enc].isInitialized = TRUE,
                                           ![h.enc].isRecording = TRUE,
                                           ![h.enc].starts = @ + 2]
          /\ handlers' = (handlers \ {h}) \cup {[h EXCEPT !.mode = "draw"]}
          /\ toRN' = toRN \o <<ToReactNative("status", TempEncoder, "Starting encoder...", 0)>>
                          \o EncodePosts(0, h.n)
     ELSE LET image == Head(h.images)
              left == Tail(h.images)
              drawn == [encoders EXCEPT ![h.enc].added = Append(@, image.index),
                                        ![h.enc].drawn = Append(@, image.index)]
          IN  IF left # <<>>
              THEN /\ encoders' = drawn
                   /\ handlers' = (handlers \ {h}) \cup {[h EXCEPT !.images = left]}
                   /\ toRN' = toRN \o EncodePosts(image.index + 1, h.n)
              ELSE /\ encoders' = [drawn EXCEPT ![h.enc].stopPending = TRUE,
                                                ![h.enc].stopOwner = h.call]
                   /\ handlers' = (handlers \ {h}) \cup
                        {[h EXCEPT !.kind = "finalize", !.images = <<>>, !.n = 0,
                                   !.mode = "stopping"]}
                   /\ toRN' = Append(toRN, ToReactNative("status", TempEncoder,
                                                         "Finalizing video...", 0))
  /\ UNCHANGED <<fsVars, encVars, reloadVars, mounted, restVars, mapVars, procVars, call, toWV,
                 lost, encoder, outVars>>

\* the script at work: startEncoding has loaded the n frames of the directory and
\* posted initEncoder, or an 'encode' message with all the frames has been posted
InitRenderer ==
  /\ InitRest
  /\ InitEncoder
  /\ mounted = TRUE
  /\ isAnimating = FALSE
  /\ frames = <<>>
  /\ animationTimeoutRef = 0
  /\ timeouts = {}
  /\ anim = 0
  /\ curJob = 1
  /\ startPc = [j \in Jobs |-> IF j = 1 THEN "done" ELSE "idle"]
  /\ cap = [c \in CaptureIds |-> [pc |-> "idle", job |-> 0, presses |-> 0, name |-> <<>>]]
  /\ dirExists = TRUE
  /\ now = StartClock
  /\ fsFails = 0
  /\ toRN = <<>>
  /\ lost = <<>>
  /\ encoder = NoCall
  /\ encoders = [id \in EncoderIds |-> NewEncoder]
  /\ handlers = {}
  /\ writes = {}
  /\ outFiles = {}
  /\ videoLog = {}
  /\ \E n \in 1..MaxBatchFrames, path \in {"encodeBatch", "encode"} :
       LET idle == [pc |-> "idle", closure |-> <<>>, loaded |-> <<>>, batchStart |-> 0,
                    posted |-> <<>>, shareUri |-> NULL]
       IN  /\ dirFiles = {[name |-> FrameName(k), job |-> 1] : k \in 1..n}
           /\ fileUris = FrameUris(n)
           /\ IF path = "encodeBatch"
              THEN /\ isProcessing = TRUE
                   /\ fin = [id \in FinIds |-> IF id = FirstCall THEN "encoding" ELSE "idle"]
                   /\ call = [id \in FinIds |->
                               IF id = FirstCall
                               THEN [idle EXCEPT !.pc = "sending",
                                                 !.closure = FrameUris(n),
                                                 !.loaded = FrameUris(n),
                                                 !.posted = <<Posted("initEncoder", 0, <<>>)>>]
                               ELSE idle]
                   /\ toWV = <<ToWebView("initEncoder", FirstCall, 0, 0, <<>>)>>
              ELSE /\ n <= MaxEncodeFrames
                   /\ isProcessing = FALSE
                   /\ fin = [id \in FinIds |-> "idle"]
                   /\ call = [id \in FinIds |-> idle]
                   /\ toWV = <<ToWebView("encode", TempEncoder, 0, 0,
                                         BatchImages(FrameUris(n), 0))>>

NextRenderer ==
  \/ EncBatch(FirstCall)
  \/ EncFinalize(FirstCall)
  \/ WebViewDeliver
  \/ EncodeDeliver
  \/ \E h \in handlers : ImageLoaded(h)
  \/ \E h \in handlers : EncodeImageLoaded(h)
  \/ \E e \in EncoderIds : RecorderStopped(e)
  \/ \E h \in handlers : VideoRead(h)
  \/ HandleMessage
  \/ \E w \in writes : VideoWritten(w)

SpecRenderer == InitRenderer /\ [][NextRenderer]_vars

\* C21 as stated: every frame whose addFrame call has returned has been drawn to
\* the canvas, the first frame of the job too.
C21_AsStated ==
  \A e \in EncoderIds :
    \A k \in 1..Len(encoders[e].added) : encoders[e].added[k] \in Range(encoders[e].drawn)


\* C22 as stated: once stopRecording has run for the encoder of a job, no handler
\* of an encodeBatch message of that job is still waiting for an image.
C22_AsStated ==
  \A e \in FinIds :
    (encoders[e].starts > 0 /\ (encoders[e].stopPending \/ ~encoders[e].isRecording))
      => ~\E h \in handlers : h.kind = "batch" /\ h.enc = e

\* C23 as stated: the frames of a job are drawn in increasing frame index order.
C23_AsStated ==
  \A e \in EncoderIds :
    \A i, j \in 1..Len(encoders[e].drawn) :
      i < j => encoders[e].drawn[i] < encoders[e].drawn[j]

\* C24 as stated: startRecording runs at most once for an encoder.
C24_AsStated == \A e \in EncoderIds : encoders[e].starts <= 1


\* C25 as stated: in the component with the start button at most one interval is
\* active, the one intervalRef names, and at most one stop timeout is scheduled.
C25_AsStated ==
  mapExample.component = "startAnimation" =>
    /\ mapExample.intervals \subseteq {mapExample.intervalRef}
    /\ Cardinality(mapExample.timeouts) <= 1


\* C26 as stated: a startEncoding call whose load found no file (the directory
\* missing or without a matching file) posts nothing to the WebView.
C26_AsStated ==
  \A id \in FinIds :
    (call[id].pc \in {"sending", "done"} /\ call[id].loaded = <<>>) => call[id].posted = <<>>


\* ------------------------------------------------- onCapture (claims C27, C28)
\* onCapture is called with an empty uri, or while isAnimating is false: the test
\* at its head fails and the call ends
CaptureRejected(c) ==
  /\ mounted
  /\ cap[c].pc = "idle"
  /\ \A k \in CaptureIds : k < c => cap[k].pc # "idle"
  /\ \E uri \in {"", "tmp/capture.png"} :
       /\ uri = "" \/ ~isAnimating
       /\ cap' = [cap EXCEPT ![c].pc = "rejected"]
  /\ UNCHANGED <<fsVars, encVars, reloadVars, mounted, restVars, mapVars, startPc, fin, call,
                 chanVars, wvVars, outVars>>

\* the start button and the captures of the view shot, the encoding left aside
NextCapture ==
  \/ \E j \in Jobs : StartPress(j)
  \/ \E j \in Jobs : StartCleanupInfo(j)
  \/ \E j \in Jobs : StartCleanupDelete(j)
  \/ \E j \in Jobs : StartEnsureInfo(j)
  \/ \E j \in Jobs : StartEnsureMkdir(j)
  \/ \E c \in CaptureIds : CaptureBegin(c)
  \/ \E c \in CaptureIds : CaptureRejected(c)
  \/ \E c \in CaptureIds : CaptureEnsureInfo(c)
  \/ \E c \in CaptureIds : CaptureEnsureMkdir(c)
  \/ \E c \in CaptureIds : CaptureWrite(c)
  \/ \E c \in CaptureIds : CaptureCheck(c)
  \/ \E j \in Jobs : AnimationComplete(j)
  \/ \E j \in Jobs : TimeoutFires(j)

SpecCapture == Init /\ [][NextCapture]_vars

C28_AsStated ==
  (/\ isAnimating
   /\ fsFails = 0
   /\ \A j \in Jobs : j > 1 => startPc[j] = "idle"
   /\ \A c \in CaptureIds : cap[c].pc \in {"idle", "rejected", "done"})
    => Cardinality(DirNames) = Len(frames)


\* every handler that is ready runs in the end
FairWebViewEncoder == SpecWebViewEncoder /\ WF_vars(NextWebViewEncoder)

\* C29: the frames sent to the page are 0, 1, 2, ... in this order, each once;
\* none is sent before 'recordingStarted' was handled, frame i + 1 not before the
\* request behind frame i was handled, and all are sent when the video is posted.
C29_FramesSentInOrder ==
  /\ Len(webViewEncoder.sent) <= webViewEncoder.total
  /\ \A k \in 1..Len(webViewEncoder.sent) : webViewEncoder.sent[k] = k - 1
  /\ webViewEncoder.sent # <<>> => webViewEncoder.encodingStarted
  /\ Len(webViewEncoder.sent) <= webViewEncoder.currentImageIndex + 1
  /\ Len(webViewEncoder.sent) <= webViewEncoder.drawn + 1
  /\ webViewEncoder.recorder = "inactive" => Len(webViewEncoder.sent) = webViewEncoder.total

\* all three frames of a job are sent and drawn
C29_Witness ==
  /\ webViewEncoder.total = 3
  /\ webViewEncoder.sent = <<0, 1, 2>>
  /\ webViewEncoder.drawn = 3

WeCompleteMessages ==
  Cardinality({k \in 1..Len(webViewEncoder.toRN) : webViewEncoder.toRN[k].type = "complete"})

MaxForeign == 1     \* messages that are not the script's own

\* texts that are not JSON, JSON without a type, and types handleMessage has no case for
ForeignTexts ==
  { <<"oops">>,
    <<"{", "\"type\"", ":">>,
    <<"null">>,
    <<"{", "}">>,
    <<"{", "\"type\"", ":", "\"frame\"", "}">>,
    <<"{", "\"type\"", ":", "\"initEncoder\"", "}">> }

ForeignPosted == Cardinality({k \in 1..Len(toRN) : toRN[k].type = "text"})

\* something in the page calls ReactNativeWebView.postMessage with such a text
PagePostsForeign ==
  /\ ForeignPosted + debugInfo < MaxForeign
  /\ \E text \in ForeignTexts :
       toRN' = Append(toRN, [type |-> "text", text |-> text])
  /\ UNCHANGED <<fsVars, encVars, reloadVars, mounted, restVars, mapVars, procVars, call,
                 toWV, lost, wvVars, outVars>>

NextMessage == NextRenderer \/ PagePostsForeign

SpecMessage == InitRenderer /\ [][NextMessage]_vars

\* C31: the step in which handleMessage takes a message that is not valid JSON, or
\* whose type is none of log, status, progress, video, error, debug, leaves status,
\* progress, videoUri and fileUris as they are.
C31_ForeignMessageIgnored ==
  [][(/\ toRN # <<>>
      /\ Head(toRN).type = "text"
      /\ toRN' = Tail(toRN))
       => UNCHANGED <<status, progress, videoUri, fileUris>>
    ]_vars

\* a text that is not JSON was handled, and the job's progress, status and video
\* are in place
C31_Witness ==
  /\ debugInfo = 1
  /\ fsFails = 0
  /\ ForeignPosted = 0
  /\ progress > 0
  /\ status = "Video ready"
  /\ videoUri # NULL

=============================================================================
